---- MODULE Spec2Model ----
(***************************************************************************)
(* mod-npc-beastmaster: the menu-driven pet catalog and the tracked-pet    *)
(* lifecycle of src/src/NpcBeastmaster.cpp as a state machine.             *)
(*                                                                         *)
(* One action per handler the host runtime calls (gossip hello, gossip     *)
(* select, the two .petname chat commands, the configuration hook/reload), *)
(* each the whole handler.  The handlers are written as operators from a   *)
(* state record to a state record, so that a handler that calls another    *)
(* (GossipSelect -> ShowTrackedPetsMenu, ShowMainMenu -> LoadSystem) is    *)
(* the composition the code performs.                                      *)
(***************************************************************************)
EXTENDS Integers, Sequences, FiniteSets, TLC

(***************************************************************************)
(* Program constants                                                       *)
(***************************************************************************)
\* BeastmasterRuntime::Gossip
PageSize == 13
PetsStart == 501
ExoticStart == 601
RareStart == 701
RareExoticStart == 801
PetEntryOffset == 901
MainMenu == 50
RemoveSkills == 80
TrackedPetsMenu == 1000
\* BeastmasterRuntime::Tracked
MenuBase == 1000
SummonBase == 2000
RenameBase == 3000
DeleteBase == 4000
TrackedPageSize == 10
\* IsTrackedDelete's literal width of the delete range
DeleteSpan == 1000
\* spells
PET_SPELL_CALL_PET == 883
PET_SPELL_TAME_BEAST == 13481
PET_SPELL_BEAST_MASTERY == 53270
PET_MAX_HAPPINESS == 1048000
hunterSpells == {883, 982, 2641, 6991, 48990, 1002, 1462, 6197}
\* host enum GossipOption, used as action codes by ShowMainMenu/GossipSelect
GOSSIP_OPTION_VENDOR == 3
GOSSIP_OPTION_STABLEPET == 14
\* IsValidPetName's length limits
MinNameLen == 2
MaxNameLen == 16

\* Action codes, entries, pages and slot indices are uint32 in the code; every
\* difference below is taken under a guard that makes it non-negative and every
\* sum stays far below 2^32 for the entries of the model, so no operation wraps.

(***************************************************************************)
(* Action-code predicates of BeastmasterRuntime                            *)
(***************************************************************************)
IsBrowseNormal(a) == a >= PetsStart /\ a < ExoticStart
IsBrowseExotic(a) == a >= ExoticStart /\ a < RareStart
IsBrowseRare(a) == a >= RareStart /\ a < RareExoticStart
IsBrowseRareExotic(a) == a >= RareExoticStart /\ a < PetEntryOffset
IsAdoptAction(a) == a >= PetEntryOffset
IsTrackedMenu(a) == a >= TrackedPetsMenu /\ a < SummonBase
IsTrackedSummon(a) == a >= SummonBase /\ a < RenameBase
IsTrackedRename(a) == a >= RenameBase /\ a < DeleteBase
IsTrackedDelete(a) == a >= DeleteBase /\ a < DeleteBase + DeleteSpan

(***************************************************************************)
(* Model values                                                            *)
(***************************************************************************)
\* an optional value: a pointer that may be null, a map key that may be absent
None == <<>>
Some(v) == <<v>>
IsSome(o) == o # <<>>
Val(o) == o[1]

\* player identities (ObjectGuid)
NumPlayers == 2
Players == 1..NumPlayers

\* the name the host gives a freshly created pet (pet->GetName())
DefaultPetName == <<"W", "o", "l", "f">>

VARIABLES
  sConfig,     \* sConfigMgr: the options of the configuration file
  tames,       \* world DB table beastmaster_tames, in row order
  tamed_pets,  \* characters DB table beastmaster_tamed_pets, per owner_guid,
               \* in insertion order (date_tamed ascending)
  rt,          \* the BeastmasterRuntime singleton
  player,      \* the host's Player objects (attributes, CustomData, gossip menu)
  online,      \* the players in the world (the host's sessions)
  out,         \* what the last handler call did: messages and calls, in order
  crashed,     \* the process dereferenced a null pointer
  now,         \* the host's clock: time(nullptr), in seconds
  lastSummonTime,  \* the static map of HandleBeastmasterCommand, per guid
  pc           \* the calls in progress on the host's threads, each with its
               \* position and its locals

vars ==
  <<sConfig, tames, tamed_pets, rt, player, online, out, crashed, now,
    lastSummonTime, pc>>

\* the state as one record, for handlers written as state transformers
Cur ==
  [sConfig |-> sConfig, tames |-> tames, tamed_pets |-> tamed_pets, rt |-> rt,
   player |-> player, out |-> out, crashed |-> crashed, ub |-> "crash"]

\* what reading the tracked list through a null pointer does in a build: the
\* process dies, or the read yields a vector of size 0
NullDerefOutcomes == {"crash", "empty"}

\* the state a call running alone leaves
Apply(s) ==
  /\ sConfig' = s.sConfig
  /\ tames' = s.tames
  /\ tamed_pets' = s.tamed_pets
  /\ rt' = s.rt
  /\ player' = s.player
  /\ online' = online
  /\ out' = s.out
  /\ crashed' = s.crashed

\* a call of the module that neither reads the clock nor runs beside another
Commit(s) == Apply(s) /\ UNCHANGED <<now, lastSummonTime, pc>>

\* start of a handler call: a fresh observation record
Enter(s, h, p, a) ==
  [s EXCEPT !.out = [p |-> p, events |-> <<[ev |-> h, arg |-> a]>>]]

Event(s, e, x) == [s EXCEPT !.out.events = Append(@, [ev |-> e, arg |-> x])]

\* creature->Whisper / PSendSysMessage: a user-visible message
Whisper(s, msg) == Event(s, msg, 0)

HasEvent(e) == \E i \in 1..Len(out.events) : out.events[i].ev = e
HasEventArg(e, x) ==
  \E i \in 1..Len(out.events) : out.events[i].ev = e /\ out.events[i].arg = x

(***************************************************************************)
(* Host gossip-menu primitives (PlayerTalkClass)                           *)
(***************************************************************************)
GossipHello == 601026
GossipBrowse == 601027

Item(k, x, n, c) == [kind |-> k, arg |-> x, name |-> n, code |-> c]

ClearGossipMenuFor(s, p) == [s EXCEPT !.player[p].gossip.items = <<>>]
AddGossipItemFor(s, p, it) == [s EXCEPT !.player[p].gossip.items = Append(@, it)]
SendGossipMenuFor(s, p, id) ==
  [s EXCEPT !.player[p].gossip.open = TRUE, !.player[p].gossip.menuId = id]
\* SendCloseGossip: the client's window is closed, so no item of the menu can be
\* selected any more; the model drops the unreachable items with it
CloseGossipMenuFor(s, p) ==
  [s EXCEPT !.player[p].gossip = [open |-> FALSE, menuId |-> 0, items |-> <<>>]]

(***************************************************************************)
(* BeastmasterDB and the SQL statements on beastmaster_tamed_pets          *)
(***************************************************************************)
\* SELECT 1 ... WHERE owner_guid = p AND entry = e
HasRow(s, p, e) ==
  \E i \in 1..Len(s.tamed_pets[p]) : s.tamed_pets[p][i].entry = e

\* SELECT COUNT(*) ... WHERE owner_guid = p
CountRows(s, p) == Len(s.tamed_pets[p])

\* SELECT entry, name ... WHERE owner_guid = p ORDER BY date_tamed DESC
RECURSIVE Reverse(_)
Reverse(q) == IF q = <<>> THEN <<>> ELSE Append(Reverse(Tail(q)), Head(q))

SelectTracked(s, p) == Reverse(s.tamed_pets[p])

\* SELECT entry ... WHERE owner_guid = p
SelectEntries(s, p) ==
  {s.tamed_pets[p][i].entry : i \in 1..Len(s.tamed_pets[p])}

\* a DELETE that forgets the entry in its WHERE clause
DeleteRows_AllOfOwner(s, p, e) == [s EXCEPT !.tamed_pets[p] = <<>>]

\* DELETE ... WHERE owner_guid = p AND entry = e
DeleteRows(s, p, e) ==
  [s EXCEPT !.tamed_pets[p] = SelectSeq(@, LAMBDA r : r.entry # e)]

\* UPDATE ... SET name = n WHERE owner_guid = p AND entry = e
\* the UPDATE without "AND entry = e"
UpdateName_AllOfOwner(s, p, e, n) ==
  [s EXCEPT !.tamed_pets[p] = [i \in 1..Len(@) |-> [@[i] EXCEPT !.name = n]]]

UpdateName(s, p, e, n) ==
  [s EXCEPT !.tamed_pets[p] =
     [i \in 1..Len(@) |-> IF @[i].entry = e THEN [@[i] EXCEPT !.name = n] ELSE @[i]]]

\* TrackTamedPet inserting without the SELECT that looks for the pair
TrackTamedPet_NoSelect(s, p, creatureEntry, petName) ==
  [s EXCEPT !.tamed_pets[p] =
     Append(@, [entry |-> creatureEntry, name |-> petName])]

\* TrackTamedPet writing the new name over a row it finds
TrackTamedPet_Overwrite(s, p, creatureEntry, petName) ==
  IF HasRow(s, p, creatureEntry)
  THEN UpdateName(s, p, creatureEntry, petName)
  ELSE [s EXCEPT !.tamed_pets[p] =
          Append(@, [entry |-> creatureEntry, name |-> petName])]

\* BeastmasterDB::TrackTamedPet: the state after the call
TrackTamedPet(s, p, creatureEntry, petName) ==
  IF HasRow(s, p, creatureEntry)
  THEN s
  ELSE [s EXCEPT !.tamed_pets[p] =
          Append(@, [entry |-> creatureEntry, name |-> petName])]

\* BeastmasterDB::TrackTamedPet: its return value
TrackTamedPetAdded(s, p, creatureEntry) == ~HasRow(s, p, creatureEntry)

(***************************************************************************)
(* NpcBeastmaster::LoadSystem                                              *)
(***************************************************************************)
\* host enum Classes
CLASS_HUNTER == 3

\* BeastmasterRuntime::Config as default-constructed
DefaultConfig ==
  [hunterOnly |-> TRUE, allowExotic |-> FALSE, minLevel |-> 10, maxLevel |-> 0,
   hunterBeastMasteryRequired |-> TRUE, trackTamedPets |-> FALSE,
   maxTrackedPets |-> 20, allowedRaces |-> {}, allowedClasses |-> {}]

\* ParseAllowedRaces / ParseAllowedClasses: the ids of the list that are > 0
ParseAllowed(ids) == {x \in ids : x > 0}

\* the configuration snapshot LoadSystem takes, before normalisation
ReadConfig(o) ==
  [hunterOnly |-> o.HunterOnly, allowExotic |-> o.AllowExotic,
   minLevel |-> o.MinLevel, maxLevel |-> o.MaxLevel,
   hunterBeastMasteryRequired |-> o.HunterBeastMasteryRequired,
   trackTamedPets |-> o.TrackTamedPets, maxTrackedPets |-> o.MaxTrackedPets,
   allowedRaces |-> ParseAllowed(o.AllowedRaces),
   allowedClasses |-> ParseAllowed(o.AllowedClasses)]

\* ParseEntryList: the set of the ids of a comma-separated list, here the
\* sequence of its numeric items
ParseEntryList(csv) == {csv[i] : i \in 1..Len(csv)}

\* level bounds sanity: a misordered pair is swapped
SwapLevels(c) ==
  IF c.maxLevel # 0 /\ c.maxLevel < c.minLevel /\ c.minLevel # 0
  THEN [c EXCEPT !.maxLevel = c.minLevel, !.minLevel = c.maxLevel]
  ELSE c

\* the fetch loop with the two override lists consulted in the other order
BucketOf_RareExoticFirst(r, info) ==
  IF info.entry \in r.rareExoticPetEntries THEN "rareExotic"
  ELSE IF info.entry \in r.rarePetEntries THEN "rare"
  ELSE IF info.rarity = "exotic" THEN "exotic"
  ELSE "normal"

\* the bucket one fetched row is pushed to
BucketOf(r, info) ==
  IF info.entry \in r.rarePetEntries THEN "rare"
  ELSE IF info.entry \in r.rareExoticPetEntries THEN "rareExotic"
  ELSE IF info.rarity = "exotic" THEN "exotic"
  ELSE "normal"

\* allPetsByEntry[info.entry] = info
MapPut(m, k, v) == [x \in DOMAIN m \cup {k} |-> IF x = k THEN v ELSE m[x]]

\* the body of the fetch loop for one row
LoadRow(r, info) ==
  LET b == BucketOf(r, info)
      r1 == [r EXCEPT !.allPets = Append(@, info),
                      !.allPetsByEntry = MapPut(@, info.entry, info)]
  IN  IF b = "rare" THEN [r1 EXCEPT !.rarePets = Append(@, info)]
      ELSE IF b = "rareExotic" THEN [r1 EXCEPT !.rareExoticPets = Append(@, info)]
      ELSE IF b = "exotic" THEN [r1 EXCEPT !.exoticPets = Append(@, info)]
      ELSE [r1 EXCEPT !.normalPets = Append(@, info)]

\* the rows of the result the fetch loop pushes to bucket b, in row order
BucketRows(r, rows, b) == SelectSeq(rows, LAMBDA info : BucketOf(r, info) = b)

\* the last row of the result with the entry: the one allPetsByEntry keeps
LastRowOf(rows, e) ==
  rows[CHOOSE i \in 1..Len(rows) :
         /\ rows[i].entry = e
         /\ \A j \in (i + 1)..Len(rows) : rows[j].entry # e]

\* the fetch loop over the rows of the result: LoadRow for each, in row order
LoadRows(r, rows) ==
  [r EXCEPT
     !.allPets = @ \o rows,
     !.allPetsByEntry =
        [e \in DOMAIN @ \cup {rows[i].entry : i \in 1..Len(rows)} |->
           IF \E i \in 1..Len(rows) : rows[i].entry = e
           THEN LastRowOf(rows, e) ELSE @[e]],
     !.rarePets = @ \o BucketRows(r, rows, "rare"),
     !.rareExoticPets = @ \o BucketRows(r, rows, "rareExotic"),
     !.exoticPets = @ \o BucketRows(r, rows, "exotic"),
     !.normalPets = @ \o BucketRows(r, rows, "normal")]

EmptyMap == [x \in {} |-> 0]

\* a LoadSystem that returns before the clears when the query yields no rows
LoadSystem_KeepOnEmpty(s) ==
  IF s.tames = <<>>
  THEN [Event(s, "LoadSystem", 0) EXCEPT
          !.rt.config = SwapLevels(ReadConfig(s.sConfig))]
  ELSE LET r0 == [s.rt EXCEPT
                    !.config = SwapLevels(ReadConfig(s.sConfig)),
                    !.rarePetEntries = ParseEntryList(s.sConfig.RarePets),
                    !.rareExoticPetEntries = ParseEntryList(s.sConfig.RareExoticPets),
                    !.allPets = <<>>, !.normalPets = <<>>, !.exoticPets = <<>>,
                    !.rarePets = <<>>, !.rareExoticPets = <<>>,
                    !.allPetsByEntry = EmptyMap]
       IN  [Event(s, "LoadSystem", Len(s.tames)) EXCEPT !.rt = LoadRows(r0, s.tames)]

\* LoadSystem up to the query: the options read, the lists and the map cleared
ClearedRuntime(s) ==
  [s.rt EXCEPT
     !.config = SwapLevels(ReadConfig(s.sConfig)),
     !.rarePetEntries = ParseEntryList(s.sConfig.RarePets),
     !.rareExoticPetEntries = ParseEntryList(s.sConfig.RareExoticPets),
     !.allPets = <<>>, !.normalPets = <<>>, !.exoticPets = <<>>,
     !.rarePets = <<>>, !.rareExoticPets = <<>>,
     !.allPetsByEntry = EmptyMap]

LoadSystem(s) ==
  LET r0 == ClearedRuntime(s)
  IN  IF s.tames = <<>>
      THEN [Event(s, "LoadSystem", 0) EXCEPT !.rt = r0]
      ELSE [Event(s, "LoadSystem", Len(s.tames)) EXCEPT !.rt = LoadRows(r0, s.tames)]

\* FindPetInfo: a pointer to the entry's PetInfo, or null
FindPetInfo(s, entry) ==
  IF entry \in DOMAIN s.rt.allPetsByEntry
  THEN Some(s.rt.allPetsByEntry[entry]) ELSE None

(***************************************************************************)
(* NpcBeastmaster::ShowMainMenu                                            *)
(***************************************************************************)
\* the spell test finding no spell on any character
HasSpell_Never(s, p, sp) == FALSE

HasSpell(s, p, sp) == sp \in s.player[p].spells
\* the talent test finding the talent on every character
HasTalent_Always(s, p) == TRUE

\* the talent test taking the spell addSpell gave for the talent
HasTalent_OrSpell(s, p) ==
  s.player[p].talent \/ PET_SPELL_BEAST_MASTERY \in s.player[p].spells

\* the talent is a property of the character's build, which the module never changes
HasTalent(s, p) == s.player[p].talent

\* the items of the main menu, from ClearGossipMenuFor to SendGossipMenuFor
MainMenuItems(s, p) ==
  LET pl == s.player[p]
      c == s.rt.config
      exotic ==
        IF c.allowExotic \/ HasSpell(s, p, PET_SPELL_BEAST_MASTERY) \/ HasTalent(s, p)
        THEN IF pl.class # CLASS_HUNTER
             THEN <<Item("BrowseExotic", 0, <<>>, ExoticStart),
                    Item("BrowseRareExotic", 0, <<>>, RareExoticStart)>>
             ELSE IF ~c.hunterBeastMasteryRequired \/ HasTalent(s, p)
                  THEN <<Item("BrowseExotic", 0, <<>>, ExoticStart),
                         Item("BrowseRareExotic", 0, <<>>, RareExoticStart)>>
                  ELSE <<>>
        ELSE <<>>
  IN  <<Item("Browse", 0, <<>>, PetsStart), Item("BrowseRare", 0, <<>>, RareStart)>>
      \o exotic
      \o (IF pl.class # CLASS_HUNTER /\ HasSpell(s, p, PET_SPELL_CALL_PET)
          THEN <<Item("Unlearn", 0, <<>>, RemoveSkills)>> ELSE <<>>)
      \o (IF c.trackTamedPets
          THEN <<Item("MyTamedPets", 0, <<>>, TrackedPetsMenu)>> ELSE <<>>)
      \o (IF pl.class = CLASS_HUNTER
          THEN <<Item("Stable", 0, <<>>, GOSSIP_OPTION_STABLEPET)>> ELSE <<>>)
      \o <<Item("Vendor", 0, <<>>, GOSSIP_OPTION_VENDOR)>>

ShowMainMenu(s, p) ==
  IF ~s.sConfig.Enable THEN s
  ELSE
    LET needLoad == s.rt.allPets = <<>>
        s1 == IF needLoad THEN LoadSystem(s) ELSE s
        pl == s1.player[p]
        c == s1.rt.config
    IN  IF needLoad /\ s1.rt.allPets = <<>> THEN Whisper(s1, "NoPetsAvailable")
        ELSE IF c.hunterOnly /\ pl.class # CLASS_HUNTER
          THEN Whisper(s1, "HuntersOnly")
        ELSE IF c.allowedClasses # {} /\ pl.class \notin c.allowedClasses
          THEN Whisper(s1, "ClassNotAllowed")
        ELSE IF c.allowedRaces # {} /\ pl.race \notin c.allowedRaces
          THEN Whisper(s1, "RaceNotAllowed")
        ELSE IF pl.level < c.minLevel /\ c.minLevel # 0
          THEN Whisper(s1, "LevelTooLow")
        ELSE IF c.maxLevel # 0 /\ pl.level > c.maxLevel
          THEN Whisper(s1, "LevelTooHigh")
        ELSE
          LET s2 == [ClearGossipMenuFor(s1, p) EXCEPT
                       !.player[p].gossip.items = MainMenuItems(s1, p)]
          IN  Event(SendGossipMenuFor(s2, p, GossipHello), "MainMenu", 0)

(***************************************************************************)
(* NpcBeastmaster::AddPetsToGossip                                         *)
(***************************************************************************)
\* the lookup-or-populate of the tamed-entry cache (when tracking is enabled)
PopulateTamedEntries(s, p) ==
  IF s.rt.config.trackTamedPets /\ p \notin DOMAIN s.rt.tamedEntriesCache
  THEN [s EXCEPT !.rt.tamedEntriesCache = MapPut(@, p, SelectEntries(s, p))]
  ELSE s

\* the set the page is rendered against
TamedEntriesOf(s, p) ==
  IF s.rt.config.trackTamedPets /\ p \in DOMAIN s.rt.tamedEntriesCache
  THEN s.rt.tamedEntriesCache[p] ELSE {}

\* the item emitted for one pet of the page window
PetItem(pet, tamedEntries) ==
  IF pet.entry \in tamedEntries
  THEN Item("AlreadyTamed", pet.entry, <<>>, 0)
  ELSE Item("Adopt", pet.entry, <<>>, (pet.entry + PetEntryOffset))

\* the page test with the first comparison not strict
InPage_Inclusive(count, page) ==
  count >= ((page - 1) * PageSize) /\ count <= (page * PageSize)

\* whether the count-th pet (from 1) lies in the window of the page
InPage(count, page) ==
  count > ((page - 1) * PageSize) /\ count <= (page * PageSize)

\* the loop from the count-th pet on: the pets whose count passes the page
\* test, in order, each added as its item
AddPetsLoop(s, p, pets, page, tamedEntries, count) ==
  LET shown == SelectSeq([c \in 1..Len(pets) |-> c],
                         LAMBDA c : c >= count /\ InPage(c, page))
  IN  [s EXCEPT !.player[p].gossip.items =
         @ \o [k \in 1..Len(shown) |-> PetItem(pets[shown[k]], tamedEntries)]]

AddPetsToGossip(s, p, pets, page) ==
  LET s1 == PopulateTamedEntries(s, p)
  IN  AddPetsLoop(s1, p, pets, page, TamedEntriesOf(s1, p), 1)

(***************************************************************************)
(* NpcBeastmaster::CreatePet                                               *)
(***************************************************************************)
\* the live-pet test never finding a pet
IsExistPet_Never(s, p) == FALSE

IsExistPet(s, p) == IsSome(s.player[p].pet)

\* player->CreatePet succeeded: the player owns a live pet of the entry
HostCreatePet(s, p, entry) ==
  [s EXCEPT !.player[p].pet =
     Some([entry |-> entry, name |-> DefaultPetName, happiness |-> 0])]

SetHappiness(s, p) ==
  [s EXCEPT !.player[p].pet = Some([Val(@) EXCEPT !.happiness = PET_MAX_HAPPINESS])]

\* the insert into the tamed-entry cache reaching the set of every player
CacheTamed_Shared(s, p, petEntry) ==
  [s EXCEPT !.rt.tamedEntriesCache =
     [q \in DOMAIN @ \cup {p} |->
        (IF q \in DOMAIN @ THEN @[q] ELSE {}) \cup {petEntry}]]

\* rt.tamedEntriesCache[guid].insert(petEntry), under tamedEntriesMutex
CacheTamed(s, p, petEntry) ==
  [s EXCEPT !.rt.tamedEntriesCache =
     MapPut(@, p, (IF p \in DOMAIN @ THEN @[p] ELSE {}) \cup {petEntry})]

\* the tracking step after the pet was created
TrackAdopted(s, p, petEntry) ==
  IF s.rt.config.trackTamedPets
  THEN IF TrackTamedPetAdded(s, p, petEntry)
       THEN CacheTamed(TrackTamedPet(s, p, petEntry, DefaultPetName), p, petEntry)
       ELSE TrackTamedPet(s, p, petEntry, DefaultPetName)
  ELSE s

\* non-hunters are granted the hunter pet-control abilities once
GrantHunterSpells(s, p) ==
  IF s.player[p].class # CLASS_HUNTER /\ ~HasSpell(s, p, PET_SPELL_CALL_PET)
  THEN [s EXCEPT !.player[p].spells = @ \cup hunterSpells]
  ELSE s

\* the capacity test refusing only above the cap
AtCapacity_Above(s, p) ==
  /\ s.rt.config.trackTamedPets
  /\ s.rt.config.maxTrackedPets > 0
  /\ CountRows(s, p) > s.rt.config.maxTrackedPets

\* enforce max tracked pets if enabled: SELECT COUNT(*) against the cap
AtCapacity(s, p) ==
  /\ s.rt.config.trackTamedPets
  /\ s.rt.config.maxTrackedPets > 0
  /\ CountRows(s, p) >= s.rt.config.maxTrackedPets

\* petOk: whether the host's player->CreatePet returns a pet
CreatePet(s, p, action, petOk) ==
  IF ~s.sConfig.Enable THEN s
  ELSE
    LET petEntry == (action - PetEntryOffset)
        info == FindPetInfo(s, petEntry)
        pl == s.player[p]
        c == s.rt.config
        s0 == Event(s, "CreatePet", petEntry)
    IN  IF IsExistPet(s, p)
          THEN CloseGossipMenuFor(Whisper(s0, "AbandonFirst"), p)
        ELSE IF IsSome(info) /\ Val(info).rarity = "exotic"
                /\ pl.class # CLASS_HUNTER /\ ~c.allowExotic
          THEN CloseGossipMenuFor(Whisper(s0, "OnlyHuntersExotic"), p)
        ELSE IF IsSome(info) /\ Val(info).rarity = "exotic"
                /\ pl.class = CLASS_HUNTER /\ c.hunterBeastMasteryRequired
                /\ ~HasTalent(s, p)
          THEN CloseGossipMenuFor(Whisper(s0, "NeedBeastMastery"), p)
        ELSE IF AtCapacity(s, p)
          THEN CloseGossipMenuFor(Whisper(s0, "MaxTracked"), p)
        ELSE IF ~petOk
          THEN Whisper(s0, "AbandonFirst")
        ELSE
          LET s1 == HostCreatePet(s0, p, petEntry)
              s2 == TrackAdopted(s1, p, petEntry)
              s3 == SetHappiness(s2, p)
              s4 == GrantHunterSpells(s3, p)
          IN  CloseGossipMenuFor(Event(s4, "Adopted", petEntry), p)

(***************************************************************************)
(* NpcBeastmaster::ClearTrackedPetsCache, ShowTrackedPetsMenu              *)
(***************************************************************************)
MapErase(m, k) == [x \in DOMAIN m \ {k} |-> m[x]]

\* a ClearTrackedPetsCache that erases nothing
ClearTrackedPetsCache_Keep(s, p) == s

ClearTrackedPetsCache(s, p) ==
  [s EXCEPT !.rt.trackedPetsCache = MapErase(@, p),
            !.player[p].petMap = None]

\* the lookup-or-populate of the tracked-list cache
PopulateTrackedPets(s, p) ==
  IF p \notin DOMAIN s.rt.trackedPetsCache /\ s.rt.config.trackTamedPets
  THEN [s EXCEPT !.rt.trackedPetsCache = MapPut(@, p, SelectTracked(s, p))]
  ELSE s

\* the page window without the bound on shown: every record from offset on
PageWindow_Unbounded(trackedPets, page) ==
  LET offset == ((page - 1) * TrackedPageSize)
      total == Len(trackedPets)
      n == IF total > offset THEN total - offset ELSE 0
  IN  [k \in 1..n |-> trackedPets[offset + k]]

\* the records of the page window: i from offset while i < total and shown < PageSize
PageWindow(trackedPets, page) ==
  LET offset == ((page - 1) * TrackedPageSize)
      total == Len(trackedPets)
      n == IF total > offset
           THEN (IF total - offset < TrackedPageSize
                 THEN total - offset ELSE TrackedPageSize)
           ELSE 0
  IN  [k \in 1..n |-> trackedPets[offset + k]]

\* the three items of the record shown at page-local index idx
TrackedItems(rec, idx) ==
  <<Item("Summon", rec.entry, rec.name, (SummonBase + idx)),
    Item("Rename", rec.entry, rec.name, (RenameBase + idx)),
    Item("Delete", rec.entry, rec.name, (DeleteBase + idx))>>

RECURSIVE TrackedMenuItems(_, _)
TrackedMenuItems(window, shown) ==
  IF shown >= Len(window) THEN <<>>
  ELSE TrackedItems(window[shown + 1], shown) \o TrackedMenuItems(window, shown + 1)

ShowTrackedPetsMenu(s, p, page) ==
  LET s0 == Event(ClearGossipMenuFor(s, p), "ShowTrackedPetsMenu", page)
      s1 == PopulateTrackedPets(s0, p)
      absent == p \notin DOMAIN s1.rt.trackedPetsCache
  IN  IF absent /\ s1.ub = "crash"
      THEN \* *trackedPetsPtr with trackedPetsPtr == nullptr
           [Event(s1, "NullDeref", 0) EXCEPT !.crashed = TRUE]
      ELSE
        LET trackedPets == IF absent THEN <<>> ELSE s1.rt.trackedPetsCache[p]
            window == PageWindow(trackedPets, page)
            s2 == [s1 EXCEPT
                     !.player[p].gossip.items = TrackedMenuItems(window, 0),
                     !.player[p].petMap =
                        Some([k \in 1..Len(window) |-> window[k].entry])]
        IN  SendGossipMenuFor(s2, p, GossipBrowse)

(***************************************************************************)
(* NpcBeastmaster::GossipSelect                                            *)
(***************************************************************************)
\* maxPage without the page of the remainder
MaxPage_Floor(pets) == Len(pets) \div PageSize

\* maxPage = size / PageSize + (size % PageSize != 0)
MaxPage(pets) ==
  (Len(pets) \div PageSize) + (IF Len(pets) % PageSize # 0 THEN 1 ELSE 0)

\* the items of a browse branch that lead elsewhere: Back, Previous, Next
BrowseNav(s, p, action, start, pets) ==
  LET page == action - start + 1
      s1 == AddGossipItemFor(s, p, Item("Back", 0, <<>>, MainMenu))
      s2 == IF page > 1
            THEN AddGossipItemFor(s1, p, Item("Previous", page - 1, <<>>, start + page - 2))
            ELSE s1
  IN  IF page < MaxPage(pets)
      THEN AddGossipItemFor(s2, p, Item("Next", page + 1, <<>>, start + page))
      ELSE s2

\* the rest of a browse branch: the page of the bucket, the menu sent
BrowseList(s, p, action, start, pets) ==
  LET page == action - start + 1
      s4 == AddPetsToGossip(s, p, pets, page)
  IN  Event(SendGossipMenuFor(s4, p, GossipBrowse), "Browse", page)

\* one browse branch: Back, Previous, Next, the page of the bucket, the menu sent
Browse(s, p, action, start, pets) ==
  BrowseList(BrowseNav(s, p, action, start, pets), p, action, start, pets)

\* opening an exotic category teaches Beast Mastery to a player without it
TeachBeastMastery(s, p) ==
  IF ~(HasSpell(s, p, PET_SPELL_BEAST_MASTERY) \/ HasTalent(s, p))
  THEN Whisper([s EXCEPT !.player[p].spells = @ \cup {PET_SPELL_BEAST_MASTERY}],
               "TaughtBeastMastery")
  ELSE s

\* the slot map's entry for a page-local index, or None
SlotEntry(s, p, idx) ==
  LET m == s.player[p].petMap
  IN  IF IsSome(m) /\ idx < Len(Val(m)) THEN Some(Val(m)[idx + 1]) ELSE None

\* the name query finding no row
TrackedName_None(s, p, e) == None

\* SELECT name ... WHERE owner_guid = p AND entry = e: the first row's name
TrackedName(s, p, e) ==
  LET rows == SelectSeq(s.tamed_pets[p], LAMBDA r : r.entry = e)
  IN  IF rows = <<>> THEN None ELSE Some(rows[1].name)

TrackedSummon(s, p, action, petOk) ==
  LET idx == (action - SummonBase)
      slot == SlotEntry(s, p, idx)
  IN  IF ~IsSome(slot) THEN s
      ELSE IF IsExistPet(s, p)
        THEN CloseGossipMenuFor(Whisper(s, "AbandonFirst"), p)
      ELSE IF ~petOk
        THEN CloseGossipMenuFor(Whisper(s, "SummonFailed"), p)
      ELSE
        LET entry == Val(slot)
            s1 == HostCreatePet(s, p, entry)
            nm == TrackedName(s, p, entry)
            s2 == IF IsSome(nm)
                  THEN [s1 EXCEPT !.player[p].pet = Some([Val(@) EXCEPT !.name = Val(nm)])]
                  ELSE s1
        IN  CloseGossipMenuFor(Event(SetHappiness(s2, p), "Summoned", entry), p)

\* the rename selection keeping a target that is already pending
TrackedRename_KeepFirst(s, p, action) ==
  LET idx == (action - RenameBase)
      slot == SlotEntry(s, p, idx)
  IN  IF ~IsSome(slot) THEN s
      ELSE CloseGossipMenuFor(
             Event([s EXCEPT !.player[p].renameEntry =
                               IF IsSome(@) THEN @ ELSE Some(Val(slot)),
                             !.player[p].expectRename = Some(TRUE)],
                   "RenameArmed", Val(slot)), p)

TrackedRename(s, p, action) ==
  LET idx == (action - RenameBase)
      slot == SlotEntry(s, p, idx)
  IN  IF ~IsSome(slot) THEN s
      ELSE CloseGossipMenuFor(
             Event([s EXCEPT !.player[p].renameEntry = Some(Val(slot)),
                             !.player[p].expectRename = Some(TRUE)],
                   "RenameArmed", Val(slot)), p)

\* the page the tracked menu is shown at after a delete
PageAfterDelete(idx, totalPets) ==
  LET page == (idx \div TrackedPageSize) + 1
      maxPage == (totalPets + TrackedPageSize - 1) \div TrackedPageSize
      clamped == IF page > maxPage /\ maxPage > 0 THEN maxPage ELSE page
  IN  IF clamped = 0 THEN 1 ELSE clamped

\* the tamed-entry cache after a delete
EraseTamedEntry(s, p, entry) ==
  IF s.rt.config.trackTamedPets /\ p \in DOMAIN s.rt.tamedEntriesCache
  THEN [s EXCEPT !.rt.tamedEntriesCache[p] = @ \ {entry}]
  ELSE s

\* the delete itself: the row, the tracked-list cache, the tamed-entry cache
DeleteTracked(s, p, entry) ==
  EraseTamedEntry(ClearTrackedPetsCache(DeleteRows(s, p, entry), p), p, entry)

TrackedDelete(s, p, action) ==
  LET idx == (action - DeleteBase)
      slot == SlotEntry(s, p, idx)
  IN  IF ~IsSome(slot) THEN s
      ELSE
        LET entry == Val(slot)
            s4 == Event(DeleteTracked(s, p, entry), "Deleted", entry)
        IN  ShowTrackedPetsMenu(s4, p, PageAfterDelete(idx, CountRows(s4, p)))

\* the statement after the else-if chain, reached by the branches that do not return
AfterChain(s, p, action, petOk) ==
  IF IsAdoptAction(action) THEN CreatePet(s, p, action, petOk) ELSE s

GossipSelect(s, p, action, petOk) ==
  IF ~s.sConfig.Enable THEN s
  ELSE
    LET sl == IF s.rt.allPets = <<>> THEN LoadSystem(s) ELSE s
        s0 == ClearGossipMenuFor(sl, p)
        r == s0.rt
    IN  IF action = MainMenu
          THEN AfterChain(ShowMainMenu(s0, p), p, action, petOk)
        ELSE IF IsBrowseNormal(action)
          THEN AfterChain(Browse(s0, p, action, PetsStart, r.normalPets), p, action, petOk)
        ELSE IF IsBrowseExotic(action)
          THEN AfterChain(Browse(TeachBeastMastery(s0, p), p, action,
                                 ExoticStart, r.exoticPets), p, action, petOk)
        ELSE IF IsBrowseRare(action)
          THEN AfterChain(Browse(s0, p, action, RareStart, r.rarePets), p, action, petOk)
        ELSE IF IsBrowseRareExotic(action)
          THEN AfterChain(Browse(TeachBeastMastery(s0, p), p, action,
                                 RareExoticStart, r.rareExoticPets), p, action, petOk)
        ELSE IF action = RemoveSkills
          THEN AfterChain(
                 CloseGossipMenuFor(
                   Event([s0 EXCEPT !.player[p].spells =
                            (@ \ hunterSpells) \ {PET_SPELL_BEAST_MASTERY}],
                         "RemoveSkills", 0), p),
                 p, action, petOk)
        ELSE IF action = GOSSIP_OPTION_STABLEPET
          THEN AfterChain(Event(s0, "SendStablePet", 0), p, action, petOk)
        ELSE IF action = GOSSIP_OPTION_VENDOR
          THEN AfterChain(Event(s0, "SendListInventory", 0), p, action, petOk)
        ELSE IF IsTrackedMenu(action)
          THEN ShowTrackedPetsMenu(s0, p, (action - TrackedPetsMenu + 1))
        ELSE IF IsTrackedSummon(action)
          THEN TrackedSummon(Event(s0, "TrackedSummon", action), p, action, petOk)
        ELSE IF IsTrackedRename(action)
          THEN TrackedRename(Event(s0, "TrackedRename", action), p, action)
        ELSE IF IsTrackedDelete(action)
          THEN TrackedDelete(Event(s0, "TrackedDelete", action), p, action)
        ELSE AfterChain(s0, p, action, petOk)

(***************************************************************************)
(* Pet names: IsValidPetName, IsProfane, the trim of the rename command    *)
(***************************************************************************)
UpperChars ==
  <<"A", "B", "C", "D", "E", "F", "G", "H", "I", "J", "K", "L", "M",
    "N", "O", "P", "Q", "R", "S", "T", "U", "V", "W", "X", "Y", "Z">>
LowerChars ==
  <<"a", "b", "c", "d", "e", "f", "g", "h", "i", "j", "k", "l", "m",
    "n", "o", "p", "q", "r", "s", "t", "u", "v", "w", "x", "y", "z">>
Range(q) == {q[i] : i \in 1..Len(q)}
IsAlpha(ch) == ch \in Range(UpperChars) \cup Range(LowerChars)
IsSpace(ch) == ch \in {" ", "\t", "\n", "\r"}

ToLowerChar(ch) ==
  IF ch \in Range(UpperChars)
  THEN LowerChars[CHOOSE i \in 1..Len(UpperChars) : UpperChars[i] = ch]
  ELSE ch
ToLower(name) == [i \in 1..Len(name) |-> ToLowerChar(name[i])]

RECURSIVE TrimFront(_)
TrimFront(name) ==
  IF name # <<>> /\ IsSpace(Head(name)) THEN TrimFront(Tail(name)) ELSE name
RECURSIVE TrimBack(_)
TrimBack(name) ==
  IF name # <<>> /\ IsSpace(name[Len(name)])
  THEN TrimBack(SubSeq(name, 1, Len(name) - 1)) ELSE name
Trim(name) == TrimBack(TrimFront(name))

\* the regular expression with any character between the two letters
MatchesAllowed_AnyInterior(name) ==
  /\ Len(name) >= 2
  /\ IsAlpha(name[1])
  /\ IsAlpha(name[Len(name)])

\* the regular expression ^[A-Za-z][A-Za-z \-']*[A-Za-z]$
MatchesAllowed(name) ==
  /\ Len(name) >= 2
  /\ IsAlpha(name[1])
  /\ IsAlpha(name[Len(name)])
  /\ \A i \in 2..(Len(name) - 1) : IsAlpha(name[i]) \/ name[i] \in {" ", "-", "'"}

IsValidPetName(name) ==
  IF Len(name) < MinNameLen \/ Len(name) > MaxNameLen THEN FALSE
  ELSE IF IsSpace(name[1]) \/ IsSpace(name[Len(name)]) THEN FALSE
  ELSE MatchesAllowed(name)

\* the lines of conf/profanity.txt
ProfanityFile == {<<"D", "a", "m", "n">>}
\* sProfanityList after LoadProfanityListIfNeeded: the non-empty lines, lowercased
sProfanityList == {ToLower(w) : w \in {x \in ProfanityFile : x # <<>>}}

\* lower.find(bad) != npos
Contains(name, bad) ==
  \E i \in 0..(Len(name) - Len(bad)) : SubSeq(name, i + 1, i + Len(bad)) = bad

\* the substring search without the lowering of the name
IsProfane_CaseSensitive(s, name) ==
  IF ~s.sConfig.ProfanityFilter THEN FALSE
  ELSE \E bad \in sProfanityList : Contains(name, bad)

IsProfane(s, name) ==
  IF ~s.sConfig.ProfanityFilter THEN FALSE
  ELSE \E bad \in sProfanityList : Contains(ToLower(name), bad)

(***************************************************************************)
(* BeastMaster_CommandScript: .petname rename, .petname cancel             *)
(***************************************************************************)
HandlePetnameRenameCommand(s, p, args) ==
  LET pl == s.player[p]
  IN  IF ~IsSome(pl.expectRename) \/ ~Val(pl.expectRename) \/ ~IsSome(pl.renameEntry)
        THEN Whisper(s, "NotRenaming")
      ELSE
        LET newName == Trim(args)
        IN  IF newName = <<>> THEN Whisper(s, "Usage")
            ELSE IF ~IsValidPetName(newName) \/ IsProfane(s, newName)
              THEN Whisper(s, "InvalidName")
            ELSE
              LET s1 == UpdateName(s, p, Val(pl.renameEntry), newName)
                  s2 == [s1 EXCEPT !.player[p].expectRename = None,
                                   !.player[p].renameEntry = None]
              IN  ClearTrackedPetsCache(Event(s2, "Renamed", Val(pl.renameEntry)), p)

\* the cancel command without the test of the flag
HandlePetnameCancelCommand_Always(s, p) ==
  Whisper([s EXCEPT !.player[p].expectRename = None,
                    !.player[p].renameEntry = None], "RenameCancelled")

\* the cancel command erasing the flag and leaving the target
HandlePetnameCancelCommand_KeepTarget(s, p) ==
  LET pl == s.player[p]
  IN  IF ~IsSome(pl.expectRename) \/ ~Val(pl.expectRename)
        THEN Whisper(s, "NotRenaming")
      ELSE Whisper([s EXCEPT !.player[p].expectRename = None], "RenameCancelled")

HandlePetnameCancelCommand(s, p) ==
  LET pl == s.player[p]
  IN  IF ~IsSome(pl.expectRename) \/ ~Val(pl.expectRename)
        THEN Whisper(s, "NotRenaming")
      ELSE Whisper([s EXCEPT !.player[p].expectRename = None,
                             !.player[p].renameEntry = None], "RenameCancelled")

(***************************************************************************)
(* The environment: configuration file, catalog table, players             *)
(***************************************************************************)
\* BeastMaster.SummonCooldown when the file does not set it, in seconds
DefaultCooldown == 120

\* the options as shipped, with the restriction to hunters lifted and
\* tracking switched on
BaseOptions ==
  [Enable |-> TRUE, HunterOnly |-> FALSE, AllowExotic |-> FALSE,
   MinLevel |-> 10, MaxLevel |-> 0, HunterBeastMasteryRequired |-> TRUE,
   TrackTamedPets |-> TRUE, MaxTrackedPets |-> 20,
   AllowedRaces |-> {0}, AllowedClasses |-> {0},
   RarePets |-> <<>>, RareExoticPets |-> <<>>, ProfanityFilter |-> TRUE,
   SummonCooldown |-> DefaultCooldown]

\* the per-player cap of the capped configuration
SmallCap == 2

\* the configuration files the server is started with
ConfigFiles ==
  {[BaseOptions EXCEPT !.MaxTrackedPets = SmallCap],
   [BaseOptions EXCEPT !.TrackTamedPets = FALSE]}

PetRow(e, r) == [entry |-> e, rarity |-> r]

\* the number of normal creatures of the catalog with small entry ids
NumNormal == 2
\* the id of the first of them
FirstNormal == 69

RECURSIVE NormalRows(_)
NormalRows(n) ==
  IF n = 0 THEN <<>> ELSE Append(NormalRows(n - 1), PetRow(FirstNormal + n - 1, "normal"))

\* rows of beastmaster_tames: creatures 99 and 3099 are two whose adoption code
\* (entry + PetEntryOffset) is 1000 and 4000
TamesTable ==
  NormalRows(NumNormal)
  \o <<PetRow(99, "normal"), PetRow(3099, "normal"), PetRow(5000, "exotic")>>

Character(cls, tal) ==
  [class |-> cls, race |-> 1, level |-> 80, talent |-> tal, spells |-> {},
   pet |-> None, petMap |-> None, expectRename |-> None, renameEntry |-> None,
   gossip |-> [open |-> FALSE, menuId |-> 0, items |-> <<>>]]
CLASS_MAGE == 8
\* a hunter with the Beast Mastery talent, one without, a mage
CharacterKinds ==
  {Character(CLASS_HUNTER, TRUE), Character(CLASS_HUNTER, FALSE),
   Character(CLASS_MAGE, FALSE)}

\* what a player may type after ".petname rename": a name in blanks, a name
\* too short, a name with a word of the profanity file in it, a name with a
\* digit, only blanks
RenameArgs ==
  <<<<" ", "A", "l", " ">>, <<"A">>, <<"d", "A", "m", "N", "s">>, <<"A", "1">>,
    <<" ", " ">>>>

\* the clock when the server starts
StartTime == 0
\* no call in progress
NoCalls == [load |-> None, select |-> [p \in {} |-> None]]
\* the host as started: no summon by command yet, no call in progress
InitHost ==
  /\ now = StartTime
  /\ lastSummonTime = <<>>
  /\ pc = NoCalls

\* BeastmasterRuntime as constructed
InitRuntime ==
  [config |-> DefaultConfig,
   allPets |-> <<>>, normalPets |-> <<>>, exoticPets |-> <<>>,
   rarePets |-> <<>>, rareExoticPets |-> <<>>,
   rarePetEntries |-> {}, rareExoticPetEntries |-> {},
   allPetsByEntry |-> EmptyMap,
   tamedEntriesCache |-> EmptyMap, trackedPetsCache |-> EmptyMap]

NoCall == [p |-> 0, events |-> <<>>]

\* the rows a player may own when the server starts: the table outlives the
\* process, so a row tracked in an earlier run is there before the first handler
StoredRows == {<<>>, <<[entry |-> FirstNormal, name |-> DefaultPetName]>>}

\* the server as started, with one player in the world
Init ==
  /\ sConfig \in ConfigFiles
  /\ tames = TamesTable
  /\ tamed_pets \in [Players -> StoredRows]
  /\ \A p \in Players \ {1} : tamed_pets[p] = <<>>
  /\ rt = InitRuntime
  /\ online = {1}
  /\ player \in [Players -> CharacterKinds]
  /\ \A p \in Players \ online : player[p] = Character(CLASS_MAGE, FALSE)
  /\ out = NoCall
  /\ crashed = FALSE
  /\ InitHost

(***************************************************************************)
(* Actions: one per handler the host calls                                 *)
(***************************************************************************)
\* BeastMaster_WorldScript::OnBeforeConfigLoad and ".beastmaster reload"
OnBeforeConfigLoad ==
  /\ ~crashed
  /\ Commit(LoadSystem(Enter(Cur, "Load", 0, 0)))

\* BeastMaster_CreatureScript::OnGossipHello; the host clears the menu first
OnGossipHello(p) ==
  /\ ~crashed
  /\ Commit(ShowMainMenu(ClearGossipMenuFor(Enter(Cur, "GossipHello", p, 0), p), p))

\* one delivery of GossipSelect: item i of the open menu, with the host's
\* player->CreatePet succeeding or not; the observation starts with the code
\* delivered and the item the player clicked
SelectItem(p, i, petOk, ub) ==
  LET it == player[p].gossip.items[i]
      s0 == Event(Enter([Cur EXCEPT !.ub = ub], "GossipSelect", p, it.code),
                  it.kind, it.arg)
  IN  Commit(GossipSelect(s0, p, it.code, petOk))

\* BeastMaster_CreatureScript::OnGossipSelect: the host delivers the action code
\* of one item of the menu the player has open
OnGossipSelect(p) ==
  /\ ~crashed
  /\ player[p].gossip.open
  /\ \E i \in 1..Len(player[p].gossip.items), petOk \in BOOLEAN,
        ub \in NullDerefOutcomes :
       SelectItem(p, i, petOk, ub)

\* the observation starts with the index of the text typed
PetnameRename(p) ==
  /\ ~crashed
  /\ \E k \in 1..Len(RenameArgs) :
       Commit(HandlePetnameRenameCommand(Enter(Cur, "PetnameRename", p, k), p,
                                         RenameArgs[k]))

PetnameCancel(p) ==
  /\ ~crashed
  /\ Commit(HandlePetnameCancelCommand(Enter(Cur, "PetnameCancel", p, 0), p))

\* the player abandons or stables the live pet (host, outside the module)
AbandonPet(p) ==
  /\ ~crashed
  /\ IsSome(player[p].pet)
  /\ Commit([Enter(Cur, "AbandonPet", p, 0) EXCEPT !.player[p].pet = None])

Next ==
  \/ OnBeforeConfigLoad
  \/ \E p \in online : OnGossipHello(p)
  \/ \E p \in online : OnGossipSelect(p)
  \/ \E p \in online : PetnameRename(p)
  \/ \E p \in online : PetnameCancel(p)
  \/ \E p \in online : AbandonPet(p)

Spec == Init /\ [][Next]_vars

\* a small catalog: one creature with a small id, one whose adoption code is 4000
DuoTable == <<PetRow(FirstNormal, "normal"), PetRow(3099, "normal")>>

\* the server as started, with two players in the world, both hunters
InitDuo ==
  /\ sConfig = BaseOptions
  /\ tames = DuoTable
  /\ tamed_pets = [p \in Players |-> <<>>]
  /\ rt = InitRuntime
  /\ online = {1, 2}
  /\ player = [p \in Players |-> IF p = 1 THEN Character(CLASS_HUNTER, TRUE)
                                  ELSE Character(CLASS_HUNTER, FALSE)]
  /\ out = NoCall
  /\ crashed = FALSE
  /\ InitHost

SpecDuo == InitDuo /\ [][Next]_vars

(***************************************************************************)
(* The server with an administrator who edits the configuration file       *)
(***************************************************************************)
\* the administrator switches BeastMaster.TrackTamedPets in the file; the module
\* sees it at the next LoadSystem
EditConfig ==
  /\ ~crashed
  /\ sConfig' = [sConfig EXCEPT !.TrackTamedPets = ~@]
  /\ out' = NoCall
  /\ UNCHANGED <<tames, tamed_pets, rt, player, online, crashed, now, lastSummonTime, pc>>

NextReload == Next \/ EditConfig

\* the server as started, with one hunter in the world and a catalog of normal
\* creatures with small ids
InitReload ==
  /\ sConfig = BaseOptions
  /\ tames = NormalRows(NumNormal)
  /\ tamed_pets \in [Players -> StoredRows]
  /\ \A p \in Players \ {1} : tamed_pets[p] = <<>>
  /\ rt = InitRuntime
  /\ online = {1}
  /\ player = [p \in Players |-> Character(CLASS_HUNTER, TRUE)]
  /\ out = NoCall
  /\ crashed = FALSE
  /\ InitHost

SpecReload == InitReload /\ [][NextReload]_vars

(***************************************************************************)
(* The server started with the profanity filter switched on or off         *)
(***************************************************************************)
\* the capped configuration with BeastMaster.ProfanityFilter either way
RenameOptions ==
  {[BaseOptions EXCEPT !.MaxTrackedPets = SmallCap, !.ProfanityFilter = f] :
     f \in BOOLEAN}

\* the server as started, with one hunter in the world and a catalog of normal
\* creatures with small ids
InitRename ==
  /\ sConfig \in RenameOptions
  /\ tames = NormalRows(NumNormal)
  /\ tamed_pets \in [Players -> StoredRows]
  /\ \A p \in Players \ {1} : tamed_pets[p] = <<>>
  /\ rt = InitRuntime
  /\ online = {1}
  /\ player = [p \in Players |-> Character(CLASS_HUNTER, TRUE)]
  /\ out = NoCall
  /\ crashed = FALSE
  /\ InitHost

SpecRename == InitRename /\ [][Next]_vars

(***************************************************************************)
(* The server with an administrator who edits the catalog                  *)
(***************************************************************************)
\* the number of creatures the administrator's catalog may hold
NumEntries == 2
\* the creatures themselves
CatalogEntries == FirstNormal..(FirstNormal + NumEntries - 1)
\* the values of the rarity column
Rarities == {"normal", "exotic"}
\* the most rows the administrator's catalog holds
MaxRows == 2

\* beastmaster_tames with at most MaxRows rows; entry is its key
CatalogTables ==
  {tbl \in UNION {[1..n -> [entry : CatalogEntries, rarity : Rarities]] : n \in 0..MaxRows} :
     \A i \in 1..Len(tbl), j \in 1..Len(tbl) : i # j => tbl[i].entry # tbl[j].entry}

\* values of BeastMaster.RarePets and BeastMaster.RareExoticPets
OverrideLists == {<<>>, <<FirstNormal>>, <<FirstNormal + 1, FirstNormal>>}

\* the administrator inserts a row into beastmaster_tames or deletes one
ImportTames ==
  /\ ~crashed
  /\ \/ \E row \in [entry : CatalogEntries, rarity : Rarities] :
          /\ Append(tames, row) \in CatalogTables
          /\ tames' = Append(tames, row)
     \/ \E i \in 1..Len(tames) :
          tames' = SubSeq(tames, 1, i - 1) \o SubSeq(tames, i + 1, Len(tames))
  /\ out' = NoCall
  /\ UNCHANGED <<sConfig, tamed_pets, rt, player, online, crashed, now, lastSummonTime, pc>>

\* the configuration file with the two override lists set
CatalogOptions ==
  {[BaseOptions EXCEPT !.RarePets = rare, !.RareExoticPets = rareExotic] :
     rare \in OverrideLists, rareExotic \in OverrideLists}

NextCatalog ==
  \/ OnBeforeConfigLoad
  \/ \E p \in online : OnGossipHello(p)
  \/ ImportTames

\* the server as started with an empty catalog and one hunter in the world
InitCatalog ==
  /\ sConfig \in CatalogOptions
  /\ tames = <<>>
  /\ tamed_pets = [p \in Players |-> <<>>]
  /\ rt = InitRuntime
  /\ online = {1}
  /\ player = [p \in Players |-> Character(CLASS_HUNTER, TRUE)]
  /\ out = NoCall
  /\ crashed = FALSE
  /\ InitHost

SpecCatalog == InitCatalog /\ [][NextCatalog]_vars

(***************************************************************************)
(* BeastmasterDB::TrackTamedPet called on its own                          *)
(***************************************************************************)
\* the names a pet may carry when it is tracked
PetNames == <<DefaultPetName, <<"A", "l">>>>

\* one call TrackTamedPet(p, e, PetNames[n]); the observation holds the
\* arguments and the value returned
TrackCall(p, e, n) ==
  LET s0 == Event(Enter(Cur, "TrackTamedPet", p, e), "Name", n)
      added == TrackTamedPetAdded(s0, p, e)
  IN  Commit(Event(TrackTamedPet(s0, p, e, PetNames[n]), "Returned",
                   IF added THEN 1 ELSE 0))

\* CreatePet passes the player who is adopting, a player in the world
NextTrack ==
  \E p \in online, e \in CatalogEntries, n \in 1..Len(PetNames) : TrackCall(p, e, n)

\* the store as any earlier run may have left it, one hunter in the world
InitTrack ==
  /\ sConfig = BaseOptions
  /\ tames = <<>>
  /\ tamed_pets \in [Players -> StoredRows]
  /\ rt = InitRuntime
  /\ online = {1}
  /\ player = [p \in Players |-> Character(CLASS_HUNTER, TRUE)]
  /\ out = NoCall
  /\ crashed = FALSE
  /\ InitHost

SpecTrack == InitTrack /\ [][NextTrack]_vars

(***************************************************************************)
(* The server with an exotic creature on the rare list                     *)
(***************************************************************************)
\* a configuration with a cap of one record and the exotic creature of the
\* catalog listed in BeastMaster.RarePets, so that the "Browse Rare Pets" page
\* every player is offered shows it, and the two exotic options either way
ExoticOptions ==
  {[BaseOptions EXCEPT !.MaxTrackedPets = 1, !.RarePets = <<5000>>,
                       !.AllowExotic = ae, !.HunterBeastMasteryRequired = br] :
     ae \in BOOLEAN, br \in BOOLEAN}

\* the server as started, with one player in the world
InitExotic ==
  /\ sConfig \in ExoticOptions
  /\ tames = NormalRows(NumNormal) \o <<PetRow(5000, "exotic")>>
  /\ tamed_pets = [p \in Players |-> <<>>]
  /\ rt = InitRuntime
  /\ online = {1}
  /\ player \in [Players -> CharacterKinds]
  /\ \A p \in Players \ online : player[p] = Character(CLASS_MAGE, FALSE)
  /\ out = NoCall
  /\ crashed = FALSE
  /\ InitHost

SpecExotic == InitExotic /\ [][Next]_vars

(***************************************************************************)
(* The server started with any eligibility options, any character talking  *)
(* to the NPC                                                              *)
(***************************************************************************)
\* the options the eligibility checks of ShowMainMenu read
GateOptions ==
  {[BaseOptions EXCEPT !.Enable = en, !.HunterOnly = ho, !.AllowedClasses = ac,
                       !.AllowedRaces = ar, !.MinLevel = mn, !.MaxLevel = mx] :
     en \in BOOLEAN, ho \in BOOLEAN,
     ac \in {{0}, {CLASS_HUNTER}, {CLASS_MAGE}}, ar \in {{0}, {2}},
     mn \in {0, 10}, mx \in {0, 60}}

\* hunters and mages of two races, below MinLevel, between the two levels and
\* above MaxLevel
GateCharacters ==
  {[Character(cls, FALSE) EXCEPT !.race = r, !.level = l] :
     cls \in {CLASS_HUNTER, CLASS_MAGE}, r \in {1, 2}, l \in {5, 30, 80}}

NextGate ==
  \/ OnBeforeConfigLoad
  \/ \E p \in online : OnGossipHello(p)

\* the server as constructed, with an empty catalog table or one creature in it
InitGate ==
  /\ sConfig \in GateOptions
  /\ tames \in {<<>>, NormalRows(1)}
  /\ tamed_pets = [p \in Players |-> <<>>]
  /\ rt = InitRuntime
  /\ online = {1}
  /\ player \in [Players -> GateCharacters]
  /\ \A p \in Players \ online : player[p] = [Character(CLASS_MAGE, FALSE) EXCEPT !.level = 5]
  /\ out = NoCall
  /\ crashed = FALSE
  /\ InitHost

SpecGate == InitGate /\ [][NextGate]_vars

(***************************************************************************)
(* IsValidPetName called on its own                                        *)
(***************************************************************************)
\* the characters names are made of: letters of both cases, a digit, and the
\* three characters the grammar allows inside a name
NameAlphabet == {"a", "Z", "1", " ", "-", "'"}
\* the longest of the short names
MaxShort == 3
\* n letters
Filler(n) == [i \in 1..n |-> "a"]
\* every name of at most MaxShort characters, and the names of MaxNameLen and
\* MaxNameLen + 1 characters that are letters between any two characters
NameInputs ==
  UNION {[1..n -> NameAlphabet] : n \in 0..MaxShort}
  \cup {<<c>> \o Filler(k) \o <<d>> :
          c \in NameAlphabet, d \in NameAlphabet, k \in {MaxNameLen - 2, MaxNameLen - 1}}

\* one call IsValidPetName(n); the observation holds the name and the value
\* returned
CheckName(n) ==
  /\ out' = [p |-> 0,
             events |-> <<[ev |-> "IsValidPetName", arg |-> n],
                          [ev |-> "Returned", arg |-> IF IsValidPetName(n) THEN 1 ELSE 0]>>]
  /\ UNCHANGED <<sConfig, tames, tamed_pets, rt, player, online, crashed, now, lastSummonTime, pc>>

NextName == \E n \in NameInputs : CheckName(n)

InitName ==
  /\ sConfig = BaseOptions
  /\ tames = <<>>
  /\ tamed_pets = [p \in Players |-> <<>>]
  /\ rt = InitRuntime
  /\ online = {}
  /\ player = [p \in Players |-> Character(CLASS_HUNTER, TRUE)]
  /\ out = NoCall
  /\ crashed = FALSE
  /\ InitHost

SpecName == InitName /\ [][NextName]_vars

(***************************************************************************)
(* The server with catalogs of several sizes and a player who only browses  *)
(***************************************************************************)
\* the size of the largest catalog: it fills two pages and starts a third
MaxBucket == 27
\* the sizes around the page boundaries
BucketSizes == {0, 1, PageSize, PageSize + 1, MaxBucket - 1, MaxBucket}
\* beastmaster_tames holding the first n normal creatures
PagesTables == {NormalRows(n) : n \in BucketSizes}

\* the administrator replaces the rows of beastmaster_tames
ImportPages ==
  /\ ~crashed
  /\ tames' \in PagesTables \ {tames}
  /\ out' = NoCall
  /\ UNCHANGED <<sConfig, tamed_pets, rt, player, online, crashed, now, lastSummonTime, pc>>

\* the items that lead to a menu: the categories of the main menu and the
\* three navigation items of a browse page
NavKinds ==
  {"Back", "Previous", "Next", "Browse", "BrowseRare", "BrowseExotic",
   "BrowseRareExotic"}

\* OnGossipSelect for a player who selects navigation items only
OnGossipNavigate(p) ==
  /\ ~crashed
  /\ player[p].gossip.open
  /\ \E i \in 1..Len(player[p].gossip.items), ub \in NullDerefOutcomes :
       /\ player[p].gossip.items[i].kind \in NavKinds
       /\ SelectItem(p, i, TRUE, ub)

NextPages ==
  \/ OnBeforeConfigLoad
  \/ \E p \in online : OnGossipHello(p)
  \/ \E p \in online : OnGossipNavigate(p)
  \/ ImportPages

\* the server as started, with one hunter in the world
InitPages ==
  /\ sConfig = BaseOptions
  /\ tames \in PagesTables
  /\ tamed_pets \in [Players -> StoredRows]
  /\ \A p \in Players \ {1} : tamed_pets[p] = <<>>
  /\ rt = InitRuntime
  /\ online = {1}
  /\ player = [p \in Players |-> Character(CLASS_HUNTER, TRUE)]
  /\ out = NoCall
  /\ crashed = FALSE
  /\ InitHost

SpecPages == InitPages /\ [][NextPages]_vars

(***************************************************************************)
(* The server with a catalog that fills more pages than a code range holds *)
(***************************************************************************)
\* the number of creatures that leaves one for the page after the last page a
\* browse code of the first category can name
BigBucket == ((ExoticStart - PetsStart) * PageSize) + 1
\* beastmaster_tames holding that many normal creatures
BigTable == [i \in 1..BigBucket |-> PetRow(FirstNormal + i - 1, "normal")]

NextBig ==
  \/ \E p \in online : OnGossipHello(p)
  \/ \E p \in online : OnGossipNavigate(p)

\* the server as started, with tracking off and one mage in the world
InitBig ==
  /\ sConfig = [BaseOptions EXCEPT !.TrackTamedPets = FALSE]
  /\ tames = BigTable
  /\ tamed_pets = [p \in Players |-> <<>>]
  /\ rt = InitRuntime
  /\ online = {1}
  /\ player = [p \in Players |-> Character(CLASS_MAGE, FALSE)]
  /\ out = NoCall
  /\ crashed = FALSE
  /\ InitHost

SpecBig == InitBig /\ [][NextBig]_vars

(***************************************************************************)
(* The server with a player whose tracked list does not fit one page       *)
(***************************************************************************)
\* the records of a list one longer than a page of the tracked menu, left in
\* the table by earlier runs: the catalog's creatures first
ManyRows ==
  [i \in 1..(TrackedPageSize + 1) |->
     [entry |-> FirstNormal + i - 1, name |-> DefaultPetName]]

\* OnGossipSelect for a player who selects a delete item only while the list
\* does not fit one page
OnGossipSelectLong(p) ==
  /\ ~crashed
  /\ player[p].gossip.open
  /\ \E i \in 1..Len(player[p].gossip.items), petOk \in BOOLEAN,
        ub \in NullDerefOutcomes :
       /\ player[p].gossip.items[i].kind = "Delete" =>
            Len(tamed_pets[p]) > TrackedPageSize
       /\ SelectItem(p, i, petOk, ub)

\* ".petname rename" with the name the pets were given when tamed
PetnameRenameDefault(p) ==
  /\ ~crashed
  /\ Commit(HandlePetnameRenameCommand(Enter(Cur, "PetnameRename", p, 0), p,
                                       DefaultPetName))

NextSlots ==
  \/ \E p \in online : OnGossipHello(p)
  \/ \E p \in online : OnGossipSelectLong(p)
  \/ \E p \in online : PetnameRenameDefault(p)

\* the server as started, with one hunter in the world
InitSlots ==
  /\ sConfig = BaseOptions
  /\ tames = NormalRows(NumNormal)
  /\ tamed_pets = [p \in Players |-> IF p = 1 THEN ManyRows ELSE <<>>]
  /\ rt = InitRuntime
  /\ online = {1}
  /\ player = [p \in Players |-> Character(CLASS_HUNTER, TRUE)]
  /\ out = NoCall
  /\ crashed = FALSE
  /\ InitHost

SpecSlots == InitSlots /\ [][NextSlots]_vars

(***************************************************************************)
(* The server started with any of the options the main menu reads, any     *)
(* character talking to the NPC                                            *)
(***************************************************************************)
\* the options the items of ShowMainMenu depend on
MenuOptions ==
  {[BaseOptions EXCEPT !.AllowExotic = ae, !.HunterBeastMasteryRequired = br,
                       !.TrackTamedPets = tt, !.MaxTrackedPets = 1] :
     ae \in BOOLEAN, br \in BOOLEAN, tt \in BOOLEAN}

\* hunters and mages, with the talent or without, knowing either of the two
\* spells the module tests (taught on an earlier visit, by a trainer or by a
\* game master's command) or not
MenuCharacters ==
  {[Character(cls, tal) EXCEPT !.spells = sp] :
     cls \in {CLASS_HUNTER, CLASS_MAGE}, tal \in BOOLEAN,
     sp \in SUBSET {PET_SPELL_BEAST_MASTERY, PET_SPELL_CALL_PET}}

NextMenu ==
  \/ OnBeforeConfigLoad
  \/ \E p \in online : OnGossipHello(p)
  \/ \E p \in online : OnGossipSelect(p)
  \/ \E p \in online : AbandonPet(p)

\* the server as started, with one player in the world and a catalog of one
\* normal and one exotic creature
InitMenu ==
  /\ sConfig \in MenuOptions
  /\ tames = <<PetRow(FirstNormal, "normal"), PetRow(5000, "exotic")>>
  /\ tamed_pets = [p \in Players |-> <<>>]
  /\ rt = InitRuntime
  /\ online = {1}
  /\ player \in [Players -> MenuCharacters]
  /\ \A p \in Players \ online : player[p] = Character(CLASS_MAGE, FALSE)
  /\ out = NoCall
  /\ crashed = FALSE
  /\ InitHost

SpecMenu == InitMenu /\ [][NextMenu]_vars

(***************************************************************************)
(* The server whose administrator switches the exotic options while        *)
(* players have menus open                                                 *)
(***************************************************************************)
\* the administrator switches BeastMaster.AllowExoticPets or
\* BeastMaster.HunterBeastMasteryRequired in the file; the module sees it at
\* the next LoadSystem
EditExotic ==
  /\ ~crashed
  /\ \/ sConfig' = [sConfig EXCEPT !.AllowExotic = ~@]
     \/ sConfig' = [sConfig EXCEPT !.HunterBeastMasteryRequired = ~@]
  /\ out' = NoCall
  /\ UNCHANGED <<tames, tamed_pets, rt, player, online, crashed, now, lastSummonTime, pc>>

NextGating == NextMenu \/ EditExotic

\* the server as started with tracking off, one player in the world and a
\* catalog of one normal and one exotic creature
InitGating ==
  /\ sConfig \in {[BaseOptions EXCEPT !.TrackTamedPets = FALSE,
                                      !.AllowExotic = ae,
                                      !.HunterBeastMasteryRequired = br] :
                    ae \in BOOLEAN, br \in BOOLEAN}
  /\ tames = <<PetRow(FirstNormal, "normal"), PetRow(5000, "exotic")>>
  /\ tamed_pets = [p \in Players |-> <<>>]
  /\ rt = InitRuntime
  /\ online = {1}
  /\ player \in [Players -> CharacterKinds]
  /\ \A p \in Players \ online : player[p] = Character(CLASS_MAGE, FALSE)
  /\ out = NoCall
  /\ crashed = FALSE
  /\ InitHost

SpecGating == InitGating /\ [][NextGating]_vars

(***************************************************************************)
(* BeastMaster_CommandScript::HandleBeastmasterCommand, and the server     *)
(* with players who summon the NPC by command while the clock runs         *)
(***************************************************************************)
\* the cooldown test refusing also at the end of the cooldown
OnCooldown_Inclusive(p) ==
  p \in DOMAIN lastSummonTime /\ now - lastSummonTime[p] <= sConfig.SummonCooldown

\* lastSummonTime.count(guid) && now - lastSummonTime[guid] < cooldown: a
\* time_t difference against the uint32 option, compared as signed 64-bit
OnCooldown(p) ==
  p \in DOMAIN lastSummonTime /\ now - lastSummonTime[p] < sConfig.SummonCooldown

\* ".beastmaster": npcOk is whether the host's SummonCreature returns a creature
HandleBeastmasterCommand(p, npcOk) ==
  LET s0 == Enter(Cur, "Beastmaster", p, now)
  IN  /\ ~crashed
      /\ IF OnCooldown(p)
         THEN /\ Apply(Event(s0, "MustWait",
                             sConfig.SummonCooldown - (now - lastSummonTime[p])))
              /\ lastSummonTime' = lastSummonTime
         ELSE /\ lastSummonTime' = MapPut(lastSummonTime, p, now)
              /\ Apply(Whisper(Event(s0, "SummonCreature", now),
                               IF npcOk THEN "NpcArrived" ELSE "NpcFailed"))
      /\ UNCHANGED <<now, pc>>

\* the last second the clock is followed to
MaxClock == 6
\* the cooldowns the file may set: none, one second, half the time the clock
\* is followed, the default
Cooldowns == {0, 1, MaxClock \div 2, DefaultCooldown}
\* what the clock does between two calls: a second or two pass, or the
\* administrator sets it back a second
ClockSteps == {-1, 1, 2}

\* time passes on the host's clock
Tick ==
  /\ ~crashed
  /\ \E d \in ClockSteps :
       /\ now + d \in StartTime..MaxClock
       /\ now' = now + d
  /\ out' = NoCall
  /\ UNCHANGED <<sConfig, tames, tamed_pets, rt, player, online, crashed,
                 lastSummonTime, pc>>

NextSummon ==
  \/ Tick
  \/ \E p \in online, npcOk \in BOOLEAN : HandleBeastmasterCommand(p, npcOk)

\* the server as started, with every player in the world
InitSummon ==
  /\ sConfig \in {[BaseOptions EXCEPT !.SummonCooldown = c] : c \in Cooldowns}
  /\ tames = NormalRows(NumNormal)
  /\ tamed_pets = [p \in Players |-> <<>>]
  /\ rt = InitRuntime
  /\ online = Players
  /\ player = [p \in Players |-> Character(CLASS_HUNTER, TRUE)]
  /\ out = NoCall
  /\ crashed = FALSE
  /\ InitHost

SpecSummon == InitSummon /\ [][NextSummon]_vars

(***************************************************************************)
(* LoadSystem on the world thread while a player browses the normal        *)
(* category on another: the steps between which the two may interleave     *)
(***************************************************************************)
\* no LoadSystem holds petsMutex
PetsMutexFree == pc.load = None

\* LoadSystem from the lock to the query: the options read, the lists and the
\* map cleared, the rows of the table fetched; without rows it returns
LoadBegin ==
  /\ ~crashed
  /\ PetsMutexFree
  /\ rt' = ClearedRuntime(Cur)
  /\ pc' = [pc EXCEPT !.load = IF tames = <<>> THEN None
                                ELSE Some([rows |-> tames, next |-> 1])]
  /\ UNCHANGED <<sConfig, tames, tamed_pets, player, online, out, crashed, now,
                 lastSummonTime>>

\* one turn of the fetch loop; the lock is released after the last row
LoadFetch ==
  /\ ~crashed
  /\ ~PetsMutexFree
  /\ LET l == pc.load[1]
     IN  /\ rt' = LoadRow(rt, l.rows[l.next])
         /\ pc' = [pc EXCEPT !.load = IF l.next = Len(l.rows) THEN None
                                       ELSE Some([l EXCEPT !.next = @ + 1])]
  /\ UNCHANGED <<sConfig, tames, tamed_pets, player, online, out, crashed, now,
                 lastSummonTime>>

\* OnGossipHello while no other call is in progress
OnGossipHelloAlone(p) == pc = NoCalls /\ OnGossipHello(p)

\* GossipSelect of a code of the normal category, up to ClearGossipMenuFor:
\* the test for an empty catalog is made under petsMutex
SelectBegin(p) ==
  /\ ~crashed
  /\ sConfig.Enable
  /\ PetsMutexFree
  /\ p \notin DOMAIN pc.select
  /\ player[p].gossip.open
  /\ \E i \in 1..Len(player[p].gossip.items) :
       LET it == player[p].gossip.items[i]
           s0 == Event(Enter(Cur, "GossipSelect", p, it.code), it.kind, it.arg)
           sl == IF s0.rt.allPets = <<>> THEN LoadSystem(s0) ELSE s0
       IN  /\ IsBrowseNormal(it.code)
           /\ Apply(ClearGossipMenuFor(sl, p))
           /\ pc' = [pc EXCEPT !.select = MapPut(@, p, [at |-> "pages",
                                                        action |-> it.code])]
  /\ UNCHANGED <<now, lastSummonTime>>

\* the branch up to AddPetsToGossip: page and maxPage from rt.normalPets.size()
\* read without the lock, as far as a LoadSystem in progress has filled it
SelectPages(p) ==
  /\ ~crashed
  /\ p \in DOMAIN pc.select
  /\ pc.select[p].at = "pages"
  /\ Apply(BrowseNav(Cur, p, pc.select[p].action, PetsStart, rt.normalPets))
  /\ pc' = [pc EXCEPT !.select[p].at = "list"]
  /\ UNCHANGED <<now, lastSummonTime>>

\* AddPetsToGossip, which waits for petsMutex, and SendGossipMenuFor
SelectList(p) ==
  /\ ~crashed
  /\ p \in DOMAIN pc.select
  /\ pc.select[p].at = "list"
  /\ PetsMutexFree
  /\ Apply(BrowseList(Cur, p, pc.select[p].action, PetsStart, rt.normalPets))
  /\ pc' = [pc EXCEPT !.select = MapErase(@, p)]
  /\ UNCHANGED <<now, lastSummonTime>>

NextLoadRace ==
  \/ LoadBegin
  \/ LoadFetch
  \/ \E p \in online : OnGossipHelloAlone(p)
  \/ \E p \in online : SelectBegin(p)
  \/ \E p \in online : SelectPages(p)
  \/ \E p \in online : SelectList(p)

\* the server as started, with one hunter in the world and a catalog of one
\* creature more than a page of the normal category holds
InitLoadRace ==
  /\ sConfig = BaseOptions
  /\ tames = NormalRows(PageSize + 1)
  /\ tamed_pets = [p \in Players |-> <<>>]
  /\ rt = InitRuntime
  /\ online = {1}
  /\ player = [p \in Players |-> Character(CLASS_HUNTER, TRUE)]
  /\ out = NoCall
  /\ crashed = FALSE
  /\ InitHost

SpecLoadRace == InitLoadRace /\ [][NextLoadRace]_vars

(***************************************************************************)
(* Two players adopting on two threads: CreatePet in the steps between     *)
(* which the calls may interleave, one for each access to the catalog, the *)
(* table and the tamed-entry cache                                         *)
(***************************************************************************)
\* an adoption code outside the range of every other branch of GossipSelect
PlainAdoptCode(a) == IsAdoptAction(a) /\ a >= DeleteBase + DeleteSpan

\* the entry the call in progress of player p adopts
Adopting(p) == pc.select[p].action - PetEntryOffset

\* the call of player p moves on to position at
MoveTo(p, at) == pc' = [pc EXCEPT !.select[p].at = at]
\* the call of player p returns
Return(p) == pc' = [pc EXCEPT !.select = MapErase(@, p)]

\* GossipSelect of an adoption item up to FindPetInfo in CreatePet, which
\* looks the entry up under petsMutex
AdoptBegin(p) ==
  /\ ~crashed
  /\ sConfig.Enable
  /\ PetsMutexFree
  /\ p \notin DOMAIN pc.select
  /\ player[p].gossip.open
  /\ \E i \in 1..Len(player[p].gossip.items) :
       LET it == player[p].gossip.items[i]
           s0 == Event(Enter(Cur, "GossipSelect", p, it.code), it.kind, it.arg)
           sl == IF s0.rt.allPets = <<>> THEN LoadSystem(s0) ELSE s0
           s1 == Event(ClearGossipMenuFor(sl, p), "CreatePet",
                       it.code - PetEntryOffset)
       IN  /\ PlainAdoptCode(it.code)
           /\ Apply(s1)
           /\ pc' = [pc EXCEPT !.select =
                       MapPut(@, p, [at |-> "checks", action |-> it.code,
                                     info |-> FindPetInfo(s1, it.code - PetEntryOffset)])]
  /\ UNCHANGED <<now, lastSummonTime>>

\* the eligibility tests, the count of the owner's records against the cap and
\* the host's player->CreatePet
AdoptChecks(p, petOk) ==
  /\ ~crashed
  /\ p \in DOMAIN pc.select
  /\ pc.select[p].at = "checks"
  /\ LET petEntry == Adopting(p)
         info == pc.select[p].info
         pl == player[p]
         c == rt.config
         s0 == Enter(Cur, "CreatePet", p, petEntry)
     IN  IF IsExistPet(s0, p)
           THEN Apply(CloseGossipMenuFor(Whisper(s0, "AbandonFirst"), p)) /\ Return(p)
         ELSE IF IsSome(info) /\ Val(info).rarity = "exotic"
                 /\ pl.class # CLASS_HUNTER /\ ~c.allowExotic
           THEN Apply(CloseGossipMenuFor(Whisper(s0, "OnlyHuntersExotic"), p))
                /\ Return(p)
         ELSE IF IsSome(info) /\ Val(info).rarity = "exotic"
                 /\ pl.class = CLASS_HUNTER /\ c.hunterBeastMasteryRequired
                 /\ ~HasTalent(s0, p)
           THEN Apply(CloseGossipMenuFor(Whisper(s0, "NeedBeastMastery"), p))
                /\ Return(p)
         ELSE IF AtCapacity(s0, p)
           THEN Apply(CloseGossipMenuFor(Whisper(s0, "MaxTracked"), p)) /\ Return(p)
         ELSE IF ~petOk
           THEN Apply(Whisper(s0, "AbandonFirst")) /\ Return(p)
         ELSE /\ Apply(HostCreatePet(s0, p, petEntry))
              /\ MoveTo(p, IF c.trackTamedPets THEN "select" ELSE "finish")
  /\ UNCHANGED <<now, lastSummonTime>>

\* TrackTamedPet: SELECT 1 ... WHERE owner_guid = p AND entry = petEntry
AdoptTrackSelect(p) ==
  /\ ~crashed
  /\ p \in DOMAIN pc.select
  /\ pc.select[p].at = "select"
  /\ Apply(Enter(Cur, "TrackTamedPet", p, Adopting(p)))
  /\ MoveTo(p, IF HasRow(Cur, p, Adopting(p)) THEN "finish" ELSE "insert")
  /\ UNCHANGED <<now, lastSummonTime>>

\* TrackTamedPet: INSERT INTO beastmaster_tamed_pets, with the pet's name
AdoptTrackInsert(p) ==
  /\ ~crashed
  /\ p \in DOMAIN pc.select
  /\ pc.select[p].at = "insert"
  /\ Apply([Enter(Cur, "TrackTamedPet", p, Adopting(p)) EXCEPT
              !.tamed_pets[p] =
                 Append(@, [entry |-> Adopting(p), name |-> player[p].pet[1].name])])
  /\ MoveTo(p, "cache")
  /\ UNCHANGED <<now, lastSummonTime>>

\* the insert into the tamed-entry cache after TrackTamedPet returned true
AdoptTrackCache(p) ==
  /\ ~crashed
  /\ p \in DOMAIN pc.select
  /\ pc.select[p].at = "cache"
  /\ Apply(CacheTamed(Enter(Cur, "CacheTamed", p, Adopting(p)), p, Adopting(p)))
  /\ MoveTo(p, "finish")
  /\ UNCHANGED <<now, lastSummonTime>>

\* happiness, the hunter abilities of a non-hunter, the whisper, the menu closed
AdoptFinish(p) ==
  /\ ~crashed
  /\ p \in DOMAIN pc.select
  /\ pc.select[p].at = "finish"
  /\ LET s0 == Enter(Cur, "CreatePet", p, Adopting(p))
         s4 == GrantHunterSpells(SetHappiness(s0, p), p)
     IN  Apply(CloseGossipMenuFor(Event(s4, "Adopted", Adopting(p)), p))
  /\ Return(p)
  /\ UNCHANGED <<now, lastSummonTime>>

\* a player with no call in progress opens the menu or turns its pages
OnGossipBetween(p) ==
  /\ p \notin DOMAIN pc.select
  /\ OnGossipHello(p) \/ OnGossipNavigate(p)

NextAdoptRace ==
  \/ \E p \in online : OnGossipBetween(p)
  \/ \E p \in online : AdoptBegin(p)
  \/ \E p \in online, petOk \in BOOLEAN : AdoptChecks(p, petOk)
  \/ \E p \in online : AdoptTrackSelect(p)
  \/ \E p \in online : AdoptTrackInsert(p)
  \/ \E p \in online : AdoptTrackCache(p)
  \/ \E p \in online : AdoptFinish(p)

\* the server as started with every player in the world, a hunter and mages;
\* one creature in the catalog; a record of it may be left from an earlier run
InitAdoptRace ==
  /\ sConfig \in ConfigFiles
  /\ tames = <<PetRow(5000, "normal")>>
  /\ tamed_pets \in [Players -> {<<>>, <<[entry |-> 5000, name |-> DefaultPetName]>>}]
  /\ rt = InitRuntime
  /\ online = Players
  /\ player = [p \in Players |->
                 IF p = 1 THEN Character(CLASS_HUNTER, TRUE)
                 ELSE Character(CLASS_MAGE, FALSE)]
  /\ out = NoCall
  /\ crashed = FALSE
  /\ InitHost

SpecAdoptRace == InitAdoptRace /\ [][NextAdoptRace]_vars

(***************************************************************************)
(* One player on two threads: a gossip selection that renders the tracked  *)
(* menu or deletes a record, and the chat command that confirms a rename,  *)
(* in the steps between which trackedPetsCacheMutex is free                *)
(***************************************************************************)
\* the calls of one player in progress: the gossip selection, the chat command
NoCallsOf == [gossip |-> None, chat |-> None]
CallsOf(p) == IF p \in DOMAIN pc.select THEN pc.select[p] ELSE NoCallsOf
SetCalls(p, c) ==
  pc' = [pc EXCEPT !.select = IF c = NoCallsOf THEN MapErase(@, p)
                               ELSE MapPut(@, p, c)]

\* the two records the player owns when the server starts
TwoRows == [i \in 1..2 |-> [entry |-> FirstNormal + i - 1, name |-> DefaultPetName]]

\* ShowTrackedPetsMenu up to the release of the lock after the lookup: with
\* the list found (or tracking off) the call goes on to the render, which reads
\* the list it found; with no list it goes on to the query
TrackedLookup(p, s, page) ==
  IF p \in DOMAIN s.rt.trackedPetsCache \/ ~s.rt.config.trackTamedPets
  THEN /\ Apply(ShowTrackedPetsMenu(s, p, page))
       /\ SetCalls(p, [CallsOf(p) EXCEPT !.gossip = None])
  ELSE /\ Apply(ClearGossipMenuFor(s, p))
       /\ SetCalls(p, [CallsOf(p) EXCEPT
                         !.gossip = Some([at |-> "query", page |-> page])])

\* GossipSelect of an item of the main or the tracked menu that leads to the
\* tracked menu, arms a rename or deletes a record: the rename branch whole,
\* the tracked-menu branch up to the lookup, the delete branch up to the DELETE
TrackedBegin(p) ==
  /\ ~crashed
  /\ sConfig.Enable
  /\ CallsOf(p).gossip = None
  /\ player[p].gossip.open
  /\ \E i \in 1..Len(player[p].gossip.items) :
       LET it == player[p].gossip.items[i]
           s0 == Event(Enter(Cur, "GossipSelect", p, it.code), it.kind, it.arg)
           sl == IF s0.rt.allPets = <<>> THEN LoadSystem(s0) ELSE s0
           s1 == ClearGossipMenuFor(sl, p)
       IN  \/ /\ it.kind = "Rename"
              /\ Apply(GossipSelect(s0, p, it.code, TRUE))
              /\ UNCHANGED pc
           \/ /\ it.kind = "MyTamedPets"
              /\ TrackedLookup(p, s1, it.code - TrackedPetsMenu + 1)
           \/ /\ it.kind = "Delete"
              /\ IsSome(SlotEntry(s1, p, it.code - DeleteBase))
              /\ LET entry == Val(SlotEntry(s1, p, it.code - DeleteBase))
                 IN  /\ Apply(DeleteRows(Event(s1, "TrackedDelete", it.code), p, entry))
                     /\ SetCalls(p, [CallsOf(p) EXCEPT
                                       !.gossip = Some([at |-> "clear", entry |-> entry,
                                                        idx |-> it.code - DeleteBase])])
  /\ UNCHANGED <<now, lastSummonTime>>

\* the delete branch from ClearTrackedPetsCache to the lookup of the render
DeleteClear(p) ==
  /\ ~crashed
  /\ CallsOf(p).gossip # None
  /\ CallsOf(p).gossip[1].at = "clear"
  /\ LET c == CallsOf(p).gossip[1]
         s0 == Enter(Cur, "TrackedDelete", p, c.entry)
         s4 == Event(EraseTamedEntry(ClearTrackedPetsCache(s0, p), p, c.entry),
                     "Deleted", c.entry)
     IN  TrackedLookup(p, s4, PageAfterDelete(c.idx, CountRows(s4, p)))
  /\ UNCHANGED <<now, lastSummonTime>>

\* ShowTrackedPetsMenu: the query, into the local trackedPets
RenderQuery(p) ==
  /\ ~crashed
  /\ CallsOf(p).gossip # None
  /\ CallsOf(p).gossip[1].at = "query"
  /\ SetCalls(p, [CallsOf(p) EXCEPT
                    !.gossip = Some([at |-> "write", page |-> @[1].page,
                                     trackedPets |-> SelectTracked(Cur, p)])])
  /\ UNCHANGED <<sConfig, tames, tamed_pets, rt, player, online, out, crashed,
                 now, lastSummonTime>>

\* ShowTrackedPetsMenu: the local list moved into the cache under the lock,
\* the page built from it, the menu sent
RenderWrite(p) ==
  /\ ~crashed
  /\ CallsOf(p).gossip # None
  /\ CallsOf(p).gossip[1].at = "write"
  /\ LET c == CallsOf(p).gossip[1]
         s0 == Enter(Cur, "ShowTrackedPetsMenu", p, c.page)
         s1 == [s0 EXCEPT !.rt.trackedPetsCache = MapPut(@, p, c.trackedPets)]
     IN  Apply(ShowTrackedPetsMenu(s1, p, c.page))
  /\ SetCalls(p, [CallsOf(p) EXCEPT !.gossip = None])
  /\ UNCHANGED <<now, lastSummonTime>>

\* the text of a ".petname rename" is accepted for the pending target
RenameAccepted(s, p, args) ==
  LET pl == s.player[p]
  IN  /\ IsSome(pl.expectRename) /\ Val(pl.expectRename) /\ IsSome(pl.renameEntry)
      /\ Trim(args) # <<>>
      /\ IsValidPetName(Trim(args)) /\ ~IsProfane(s, Trim(args))

\* ".petname rename": a text that is refused, the whole command; one that is
\* accepted, up to the call of ClearTrackedPetsCache
RenameBegin(p) ==
  /\ ~crashed
  /\ CallsOf(p).chat = None
  /\ \E k \in 1..Len(RenameArgs) :
       LET s0 == Enter(Cur, "PetnameRename", p, k)
           e == Val(player[p].renameEntry)
       IN  IF RenameAccepted(s0, p, RenameArgs[k])
           THEN /\ Apply(Event([UpdateName(s0, p, e, Trim(RenameArgs[k])) EXCEPT
                                  !.player[p].expectRename = None,
                                  !.player[p].renameEntry = None],
                               "Renamed", e))
                /\ SetCalls(p, [CallsOf(p) EXCEPT !.chat = Some([at |-> "clear"])])
           ELSE /\ Apply(HandlePetnameRenameCommand(s0, p, RenameArgs[k]))
                /\ UNCHANGED pc
  /\ UNCHANGED <<now, lastSummonTime>>

\* ".petname rename": ClearTrackedPetsCache, and the return
RenameClear(p) ==
  /\ ~crashed
  /\ CallsOf(p).chat # None
  /\ Apply(ClearTrackedPetsCache(Enter(Cur, "ClearTrackedPetsCache", p, 0), p))
  /\ SetCalls(p, [CallsOf(p) EXCEPT !.chat = None])
  /\ UNCHANGED <<now, lastSummonTime>>

\* the player talks to the NPC while no gossip selection is in progress
OnGossipHelloFree(p) == CallsOf(p).gossip = None /\ OnGossipHello(p)

NextCacheRace ==
  \/ \E p \in online : OnGossipHelloFree(p)
  \/ \E p \in online : TrackedBegin(p)
  \/ \E p \in online : DeleteClear(p)
  \/ \E p \in online : RenderQuery(p)
  \/ \E p \in online : RenderWrite(p)
  \/ \E p \in online : RenameBegin(p)
  \/ \E p \in online : RenameClear(p)

\* the server as started, with one hunter in the world who owns two records
InitCacheRace ==
  /\ sConfig = BaseOptions
  /\ tames = NormalRows(NumNormal)
  /\ tamed_pets = [p \in Players |-> IF p = 1 THEN TwoRows ELSE <<>>]
  /\ rt = InitRuntime
  /\ online = {1}
  /\ player = [p \in Players |-> Character(CLASS_HUNTER, TRUE)]
  /\ out = NoCall
  /\ crashed = FALSE
  /\ InitHost

SpecCacheRace == InitCacheRace /\ [][NextCacheRace]_vars

(***************************************************************************)
(* The server with a player who looks for a record: the player keeps       *)
(* talking to the NPC and selecting what the menus offer, and deletes      *)
(* nothing                                                                 *)
(***************************************************************************)
\* the action codes the menus of this server offer, but for the delete items:
\* the main menu's, the browse pages' and the tracked menu's
SeekCodes ==
  {0, MainMenu, RemoveSkills, PetsStart, ExoticStart, RareStart, RareExoticStart,
   TrackedPetsMenu, GOSSIP_OPTION_STABLEPET, GOSSIP_OPTION_VENDOR}
  \cup {SummonBase + i : i \in 0..(TrackedPageSize - 1)}
  \cup {RenameBase + i : i \in 0..(TrackedPageSize - 1)}

\* OnGossipSelect for an item of the open menu that carries code c and is no
\* delete item
SelectCode(p, c) ==
  /\ ~crashed
  /\ player[p].gossip.open
  /\ \E i \in 1..Len(player[p].gossip.items), petOk \in BOOLEAN,
        ub \in NullDerefOutcomes :
       /\ player[p].gossip.items[i].code = c
       /\ player[p].gossip.items[i].kind # "Delete"
       /\ SelectItem(p, i, petOk, ub)

NextSeek ==
  \/ \E p \in online : OnGossipHello(p)
  \/ \E p \in online, c \in SeekCodes : SelectCode(p, c)
  \/ \E p \in online : AbandonPet(p)

\* the player never stops talking to the NPC
FairSeek == \A p \in Players : WF_vars(p \in online /\ OnGossipHello(p))

\* the server of InitSlots: one hunter who owns one record more than a page of
\* the tracked menu lists, under the default cap
SpecSeek == InitSlots /\ [][NextSeek]_vars /\ FairSeek

(***************************************************************************)
(* The three mutexes of BeastmasterRuntime and the order in which each     *)
(* operation locks and unlocks them                                        *)
(***************************************************************************)
\* petsMutex, tamedEntriesMutex, trackedPetsCacheMutex
Mutexes == {"petsMutex", "tamedEntriesMutex", "trackedPetsCacheMutex"}
\* the thread of the world update, which runs OnBeforeConfigLoad; the handler
\* calls of player p run on thread p
World == 0
Threads == Players \cup {World}

\* std::lock_guard<std::mutex> constructed at `line`: the mutex is locked,
\* the rest of the scope runs, and the destructor unlocks it
LockGuard(m, line, body) ==
  <<[op |-> "lock", m |-> m, line |-> line]>> \o body
    \o <<[op |-> "unlock", m |-> m, line |-> line]>>
\* a scope that holds the guard and calls nothing that locks
Guarded(m, line) == {LockGuard(m, line, <<>>)}
\* a scope that holds the guard around one of the runs of B
Under(m, line, B) == {LockGuard(m, line, b) : b \in B}
\* the runs of A followed by the runs of B
Then(A, B) == {a \o b : a \in A, b \in B}
\* a branch that is taken or not
Opt(A) == {<<>>} \cup A
\* a loop that runs A up to n times
RECURSIVE UpTo(_, _)
UpTo(A, n) == IF n = 0 THEN {<<>>} ELSE {<<>>} \cup Then(A, UpTo(A, n - 1))
\* the most records of a tracked-menu page whose creature is looked up
MaxShown == 2

FindPetInfoLocks == Guarded("petsMutex", 301)

\* the guard of line 336 is held to the end of the function; nothing called
\* under it locks
LoadSystemLocks == Guarded("petsMutex", 336)

\* a ShowMainMenu that calls the lazy LoadSystem inside the scope of the
\* guard of line 558
ShowMainMenuLocks_LoadUnderLock ==
  Under("petsMutex", 558,
        Opt(Then(LoadSystemLocks, Guarded("petsMutex", 565))))

\* the emptiness test under the guard of line 558, whose scope ends at 560;
\* then, if the catalog was empty, LoadSystem and the second test
ShowMainMenuLocks ==
  Then(Guarded("petsMutex", 558),
       Opt(Then(LoadSystemLocks, Guarded("petsMutex", 565))))

\* with tracking on: the cache lookup, on a miss the query and the write,
\* each write under its own guard; then the page under petsMutex to the end
AddPetsToGossipLocks ==
  Then(Opt(Then(Guarded("tamedEntriesMutex", 1058),
                Opt(Guarded("tamedEntriesMutex", 1077)))),
       Guarded("petsMutex", 1087))

ClearTrackedPetsCacheLocks == Guarded("trackedPetsCacheMutex", 1113)

\* the lookup, on a miss with tracking on the write, then FindPetInfo for
\* every record of the page
ShowTrackedPetsMenuLocks ==
  Then(Then(Guarded("trackedPetsCacheMutex", 1127),
            Opt(Guarded("trackedPetsCacheMutex", 1155))),
       UpTo(FindPetInfoLocks, MaxShown))

\* FindPetInfo, then for an adoption that went through with tracking on the
\* insert into the tamed-entry cache; nothing if the module is disabled
CreatePetLocks ==
  Opt(Then(FindPetInfoLocks, Opt(Guarded("tamedEntriesMutex", 1022))))

\* the delete branch: nothing if the slot is unknown, else
\* ClearTrackedPetsCache, the erase from the tamed-entry cache with tracking
\* on, and the tracked menu again
TrackedDeleteLocks ==
  Opt(Then(ClearTrackedPetsCacheLocks,
           Then(Opt(Guarded("tamedEntriesMutex", 917)),
                ShowTrackedPetsMenuLocks)))

\* the emptiness test under the guard of line 704, the lazy LoadSystem after
\* its scope, then the branch of the action code; a tracked summon and the
\* arming of a rename lock nothing
GossipSelectLocks ==
  Then(Then(Guarded("petsMutex", 704), Opt(LoadSystemLocks)),
       ShowMainMenuLocks \cup AddPetsToGossipLocks \cup ShowTrackedPetsMenuLocks
         \cup {<<>>} \cup TrackedDeleteLocks \cup CreatePetLocks)

\* OnGossipHello, OnGossipSelect, ".petname rename" (ClearTrackedPetsCache
\* after an accepted name) and ".beastmaster reload"
PlayerCalls ==
  (ShowMainMenuLocks \cup GossipSelectLocks \cup ClearTrackedPetsCacheLocks
     \cup LoadSystemLocks) \ {<<>>}
\* what thread t may be asked to run
CallsOn(t) == IF t = World THEN LoadSystemLocks ELSE PlayerCalls

\* no call in progress, every mutex free; held[m] is the set of threads
\* that own m
NoLockCalls ==
  [rest |-> [t \in Threads |-> <<>>], held |-> [m \in Mutexes |-> {}]]
\* the mutexes thread t owns
HeldBy(t) == {m \in Mutexes : t \in pc.held[m]}
\* thread t is at a lock_guard constructor
AtLock(t) == pc.rest[t] # <<>> /\ Head(pc.rest[t]).op = "lock"
\* thread t is at a lock_guard constructor whose mutex another thread owns
Blocked(t) ==
  /\ AtLock(t)
  /\ pc.held[Head(pc.rest[t]).m] \ {t} # {}

\* a handler is called on thread t
CallBegin(t) ==
  /\ ~crashed
  /\ pc.rest[t] = <<>>
  /\ \E run \in CallsOn(t) : pc' = [pc EXCEPT !.rest[t] = run]
  /\ UNCHANGED <<sConfig, tames, tamed_pets, rt, player, online, out, crashed,
                 now, lastSummonTime>>

\* std::mutex::lock. Locking a mutex the thread already owns is undefined:
\* the thread hangs (no step) or the process ends
Lock(t) ==
  /\ ~crashed
  /\ AtLock(t)
  /\ LET m == Head(pc.rest[t]).m
     IN  IF t \in pc.held[m]
         THEN crashed' = TRUE /\ pc' = pc
         ELSE /\ pc.held[m] = {}
              /\ pc' = [pc EXCEPT !.held[m] = {t}, !.rest[t] = Tail(@)]
              /\ crashed' = crashed
  /\ UNCHANGED <<sConfig, tames, tamed_pets, rt, player, online, out,
                 now, lastSummonTime>>

\* std::mutex::unlock at the end of the guard's scope
Unlock(t) ==
  /\ ~crashed
  /\ pc.rest[t] # <<>>
  /\ Head(pc.rest[t]).op = "unlock"
  /\ pc' = [pc EXCEPT !.held[Head(pc.rest[t]).m] = @ \ {t},
                      !.rest[t] = Tail(@)]
  /\ UNCHANGED <<sConfig, tames, tamed_pets, rt, player, online, out, crashed,
                 now, lastSummonTime>>

NextLocks ==
  \/ \E t \in Threads : CallBegin(t)
  \/ \E t \in Threads : Lock(t)
  \/ \E t \in Threads : Unlock(t)

\* the server as started, every player in the world, no call in progress
InitLocks ==
  /\ sConfig = BaseOptions
  /\ tames = NormalRows(NumNormal)
  /\ tamed_pets = [p \in Players |-> <<>>]
  /\ rt = InitRuntime
  /\ online = Players
  /\ player = [p \in Players |-> Character(CLASS_HUNTER, TRUE)]
  /\ out = NoCall
  /\ crashed = FALSE
  /\ now = StartTime
  /\ lastSummonTime = <<>>
  /\ pc = NoLockCalls

SpecLocks == InitLocks /\ [][NextLocks]_vars

(***************************************************************************)
(* Claims                                                                  *)
(***************************************************************************)
\* the last handler call was a GossipSelect
Selected == out.events # <<>> /\ out.events[1].ev = "GossipSelect"
\* the action code it was given
SelectedCode == out.events[1].arg
\* the item the player clicked
Clicked == out.events[2]

\* the range predicates an action code satisfies
RangesOf(a) ==
  {k \in {"MainMenu", "BrowseNormal", "BrowseExotic", "BrowseRare",
          "BrowseRareExotic", "Adopt", "TrackedMenu", "TrackedSummon",
          "TrackedRename", "TrackedDelete"} :
     \/ k = "MainMenu" /\ a = MainMenu
     \/ k = "BrowseNormal" /\ IsBrowseNormal(a)
     \/ k = "BrowseExotic" /\ IsBrowseExotic(a)
     \/ k = "BrowseRare" /\ IsBrowseRare(a)
     \/ k = "BrowseRareExotic" /\ IsBrowseRareExotic(a)
     \/ k = "Adopt" /\ IsAdoptAction(a)
     \/ k = "TrackedMenu" /\ IsTrackedMenu(a)
     \/ k = "TrackedSummon" /\ IsTrackedSummon(a)
     \/ k = "TrackedRename" /\ IsTrackedRename(a)
     \/ k = "TrackedDelete" /\ IsTrackedDelete(a)}

\* C1: the action-code ranges are pairwise disjoint and every non-adopt range
\* lies below the adopt range: an action code delivered to GossipSelect
\* satisfies at most one range predicate, and one that satisfies a non-adopt
\* range predicate is below PetEntryOffset.
C1_RangesDisjoint ==
  Selected =>
    /\ Cardinality(RangesOf(SelectedCode)) <= 1
    /\ (RangesOf(SelectedCode) \ {"Adopt"} # {} => SelectedCode < PetEntryOffset)

\* C2: selecting the adopt item a browse page emitted for entry e runs the
\* adoption attempt for exactly e, and renders no tracked menu, summons no
\* tracked pet, arms no rename and deletes no tracked record.
C2_AdoptItemAdopts ==
  (Selected /\ Clicked.ev = "Adopt") =>
    /\ ~crashed
    /\ HasEventArg("CreatePet", Clicked.arg)
    /\ \A i \in 1..Len(out.events) :
         /\ out.events[i].ev = "CreatePet" => out.events[i].arg = Clicked.arg
         /\ out.events[i].ev \notin
              {"ShowTrackedPetsMenu", "Summoned", "RenameArmed", "Deleted"}

\* the entries of a bucket
EntriesIn(bucket) == {bucket[i].entry : i \in 1..Len(bucket)}
\* the last handler call ran LoadSystem over a non-empty result set
Loaded == HasEventArg("LoadSystem", Len(tames)) /\ tames # <<>>

\* C3: after Load every loaded entry is in exactly one of the four buckets,
\* chosen by priority (Rare if in the rare override set, else RareExotic if in
\* the rare-exotic override set, else Exotic if its rarity is "exotic", else
\* Normal), and the four buckets together hold exactly the loaded entries; a
\* Load takes the entries from the catalog table and the override sets from the
\* configuration.
C3_Partition ==
  /\ \A i \in 1..Len(rt.allPets) :
       LET e == rt.allPets[i].entry
           inRare == e \in rt.rarePetEntries
           inRareExotic == e \in rt.rareExoticPetEntries
           exotic == rt.allPets[i].rarity = "exotic"
       IN  /\ e \in EntriesIn(rt.rarePets) <=> inRare
           /\ e \in EntriesIn(rt.rareExoticPets) <=> ~inRare /\ inRareExotic
           /\ e \in EntriesIn(rt.exoticPets) <=> ~inRare /\ ~inRareExotic /\ exotic
           /\ e \in EntriesIn(rt.normalPets) <=> ~inRare /\ ~inRareExotic /\ ~exotic
  /\ EntriesIn(rt.rarePets) \cup EntriesIn(rt.rareExoticPets)
       \cup EntriesIn(rt.exoticPets) \cup EntriesIn(rt.normalPets)
     = EntriesIn(rt.allPets)
  /\ Len(rt.rarePets) + Len(rt.rareExoticPets) + Len(rt.exoticPets)
       + Len(rt.normalPets) = Len(rt.allPets)
  /\ Loaded =>
       /\ rt.allPets = tames
       /\ rt.rarePetEntries = ParseEntryList(sConfig.RarePets)
       /\ rt.rareExoticPetEntries = ParseEntryList(sConfig.RareExoticPets)

\* C3's case: a Load of two rows, one an exotic creature named by both override
\* lists (it is in Rare), the other a creature of neither list whose rarity is
\* not "exotic" (it is in Normal)
C3_Witness ==
  /\ Loaded
  /\ Len(rt.allPets) = 2
  /\ \E i \in 1..2 :
       /\ rt.allPets[i].rarity = "exotic"
       /\ rt.allPets[i].entry \in rt.rarePetEntries \cap rt.rareExoticPetEntries
       /\ rt.rarePets = <<rt.allPets[i]>>
  /\ Len(rt.normalPets) = 1
  /\ rt.normalPets[1].rarity = "normal"

\* the rows of owner p for entry e in a store
RowsOf(store, p, e) == {i \in 1..Len(store[p]) : store[p][i].entry = e}

\* C4: in every reachable state the tracked-pet store holds at most one record
\* per (owner, entry) pair.
C4_UniquePerOwnerEntry ==
  \A p \in Players :
    \A i \in 1..Len(tamed_pets[p]), j \in 1..Len(tamed_pets[p]) :
      i # j => tamed_pets[p][i].entry # tamed_pets[p][j].entry

\* C4's case: with tracking enabled a player adopted a creature they already
\* had a record of (the adoption left the tamed-entry cache alone, as it does
\* when TrackTamedPet returns false), and the store holds that one record next
\* to a record of another creature
C4_Witness ==
  \E p \in Players, e \in {tames[i].entry : i \in 1..Len(tames)} :
    /\ out.p = p
    /\ HasEventArg("Adopted", e)
    /\ rt.config.trackTamedPets
    /\ (p \in DOMAIN rt.tamedEntriesCache => e \notin rt.tamedEntriesCache[p])
    /\ Cardinality(RowsOf(tamed_pets, p, e)) = 1
    /\ Len(tamed_pets[p]) = 2

\* the last step was the call TrackTamedPet(p, e, PetNames[n])
TrackCalled(p, e, n) ==
  /\ out.p = p
  /\ Len(out.events) = 3
  /\ out.events[1] = [ev |-> "TrackTamedPet", arg |-> e]
  /\ out.events[2] = [ev |-> "Name", arg |-> n]

\* C5: TrackTamedPet is idempotent for every (owner, entry): a call on an
\* untracked pair appends one record with the given name and returns true; a
\* call on a tracked pair returns false and leaves the store as it is (the
\* stored name is kept); either way the store then holds exactly one record of
\* the pair, and no other record changes.
C5_TrackIdempotent ==
  [][\A p \in Players, e \in CatalogEntries, n \in 1..Len(PetNames) :
       TrackCalled(p, e, n)' =>
         /\ IF RowsOf(tamed_pets, p, e) = {}
            THEN /\ tamed_pets' = [tamed_pets EXCEPT ![p] =
                                     Append(@, [entry |-> e, name |-> PetNames[n]])]
                 /\ out'.events[3] = [ev |-> "Returned", arg |-> 1]
            ELSE /\ tamed_pets' = tamed_pets
                 /\ out'.events[3] = [ev |-> "Returned", arg |-> 0]
         /\ Cardinality(RowsOf(tamed_pets', p, e)) = 1]_vars

\* C5's case: a call for a tracked pair with another name returned false, and
\* the one record of the pair carries the first name
C5_Witness ==
  \E p \in Players, e \in CatalogEntries :
    /\ TrackCalled(p, e, 1)
    /\ out.events[3].arg = 0
    /\ Len(tamed_pets[p]) = 2
    /\ \E i \in 1..2 : tamed_pets[p][i] = [entry |-> e, name |-> PetNames[2]]

\* tracking is enabled with a cap
CapOn == rt.config.trackTamedPets /\ rt.config.maxTrackedPets > 0
\* no player holds more records than the cap
WithinCap == CapOn => \A p \in Players : Len(tamed_pets[p]) <= rt.config.maxTrackedPets
\* the step is an adoption attempt of player p, who holds as many records as the cap
AttemptAtCap(p) ==
  /\ CapOn
  /\ Len(tamed_pets[p]) >= rt.config.maxTrackedPets
  /\ out'.p = p
  /\ HasEvent("CreatePet")'
\* the attempt changed neither the store nor the player's pet
Refused(p) ==
  /\ tamed_pets' = tamed_pets
  /\ player'[p].pet = player[p].pet
  /\ ~HasEvent("Adopted")'

\* C6 as stated: with tracking enabled and a cap c > 0, every adoption attempt
\* by a player who has c tracked records is refused with the capacity error,
\* creating no pet and adding no record, and no player's count exceeds c.
C6_RefusedWithCapacityError ==
  /\ []WithinCap
  /\ [][\A p \in Players :
          AttemptAtCap(p) => Refused(p) /\ HasEvent("MaxTracked")']_vars

\* C6 amended: with tracking enabled and a cap c > 0, every adoption attempt by
\* a player who has c tracked records is refused, creating no pet and adding no
\* record, and no player's count exceeds c; the refusal is the capacity error
\* unless an earlier check of the attempt refuses it first: a player with a live
\* pet is told to abandon it, an exotic creature is refused to a player who may
\* not have one.
C6_RefusedAtCapacity ==
  /\ []WithinCap
  /\ [][\A p \in Players :
          AttemptAtCap(p) =>
            /\ Refused(p)
            /\ IF IsSome(player[p].pet) THEN HasEvent("AbandonFirst")'
               ELSE \/ HasEvent("MaxTracked")'
                    \/ HasEvent("OnlyHuntersExotic")'
                    \/ HasEvent("NeedBeastMastery")']_vars

\* C6's case: a player with no live pet and SmallCap records attempted an
\* adoption and was refused with the capacity error
C6_Witness ==
  \E p \in Players :
    /\ out.p = p
    /\ HasEvent("CreatePet")
    /\ HasEvent("MaxTracked")
    /\ CapOn
    /\ rt.config.maxTrackedPets = SmallCap
    /\ Len(tamed_pets[p]) = SmallCap
    /\ player[p].pet = None

\* the last handler call ended by rendering the tracked-pets menu of player p
\* at the given page
TrackedMenuRendered(p, page) ==
  /\ ~crashed
  /\ out.p = p
  /\ out.events # <<>>
  /\ out.events[Len(out.events)] = [ev |-> "ShowTrackedPetsMenu", arg |-> page]

\* C7: every render of the tracked-pets menu lists the player's tracked
\* records as they currently are in the store, most recently tamed first: with
\* tracking enabled, the items of a rendered page are those of the page window
\* of the store's rows, none omitted and none that the store no longer holds.
C7_TrackedMenuCurrent ==
  \A p \in Players, page \in 1..2 :
    (rt.config.trackTamedPets /\ TrackedMenuRendered(p, page)) =>
      player[p].gossip.items
        = TrackedMenuItems(PageWindow(SelectTracked(Cur, p), page), 0)

\* the last handler call ended by sending a browse page to player p
BrowseRendered(p) ==
  /\ out.p = p
  /\ out.events # <<>>
  /\ out.events[Len(out.events)].ev = "Browse"
\* the bucket the browse code of the call names
BrowsedBucket ==
  IF IsBrowseNormal(SelectedCode) THEN rt.normalPets
  ELSE IF IsBrowseExotic(SelectedCode) THEN rt.exoticPets
  ELSE IF IsBrowseRare(SelectedCode) THEN rt.rarePets
  ELSE rt.rareExoticPets
\* the entries of the page window of the rendered page
BrowsedWindow ==
  {BrowsedBucket[c].entry :
     c \in {c \in 1..Len(BrowsedBucket) : InPage(c, out.events[Len(out.events)].arg)}}
\* the entries player p's open menu shows with items of a kind
ShownAs(p, k) ==
  {player[p].gossip.items[i].arg :
     i \in {i \in 1..Len(player[p].gossip.items) : player[p].gossip.items[i].kind = k}}

\* C8: with tracking enabled, a browse page offers an entry of its window as an
\* adoptable item iff the store holds no record of the player for it, and shows
\* the entries the store holds a record for as "(Already Tamed)" placeholders:
\* the tamed-entry cache agrees with the store whenever a page is rendered.
C8_AdoptableIffUntracked ==
  \A p \in Players :
    (rt.config.trackTamedPets /\ BrowseRendered(p)) =>
      /\ ShownAs(p, "Adopt") = {e \in BrowsedWindow : ~HasRow(Cur, p, e)}
      /\ ShownAs(p, "AlreadyTamed") = {e \in BrowsedWindow : HasRow(Cur, p, e)}

\* the step is a tracked delete by player p of the record of entry e
DeleteStep(p, e) == out'.p = p /\ HasEventArg("Deleted", e)'

DeleteSelected(p, e) ==
  /\ out'.p = p
  /\ Selected'
  /\ IsTrackedDelete(SelectedCode')
  /\ SlotEntry(Cur, p, SelectedCode' - DeleteBase) = Some(e)
\* max(1, ceil(n / TrackedPageSize))
LastPage(n) ==
  IF n = 0 THEN 1 ELSE (n + TrackedPageSize - 1) \div TrackedPageSize

\* C10: a tracked delete on slot i removes exactly the record of the owner for
\* the entry the slot map holds at i and no other record, then renders the
\* tracked menu with the remaining records at a page p with
\* 1 <= p <= max(1, ceil(remaining / pageSize)); deleting the only record
\* renders an empty list at page 1 with an empty slot map.
C10_DeleteExactlyOne ==
  [][\A p \in Players, e \in EntriesIn(tames) :
       DeleteSelected(p, e) =>
         LET remaining == Len(tamed_pets'[p])
         IN  /\ tamed_pets' = [tamed_pets EXCEPT ![p] =
                                 SelectSeq(@, LAMBDA r : r.entry # e)]
             /\ \E page \in 1..LastPage(remaining) :
                  /\ TrackedMenuRendered(p, page)'
                  /\ player'[p].gossip.items
                       = TrackedMenuItems(PageWindow(SelectTracked(Cur, p)', page), 0)
             /\ remaining = 0 =>
                  /\ TrackedMenuRendered(p, 1)'
                  /\ player'[p].gossip.items = <<>>
                  /\ player'[p].petMap = Some(<<>>)]_vars

\* C10's case: a player with two records deleted the one shown at slot 1; the
\* menu is rendered again at page 1 and its slot map holds the other record
C10_Witness ==
  \E p \in Players :
    /\ TrackedMenuRendered(p, 1)
    /\ Selected
    /\ SelectedCode = DeleteBase + 1
    /\ HasEvent("Deleted")
    /\ Len(tamed_pets[p]) = 1
    /\ player[p].petMap = Some(<<tamed_pets[p][1].entry>>)

(***************************************************************************)
(* The rename sub-protocol                                                 *)
(***************************************************************************)
\* AwaitingRename(e): the rename-pending flag of player p is set, target e
AwaitingRename(p, e) ==
  player[p].expectRename = Some(TRUE) /\ player[p].renameEntry = Some(e)
\* Idle: neither the flag nor the target is there
Idle(p) == player[p].expectRename = None /\ player[p].renameEntry = None
\* the step is player p's ".petname rename" with the text RenameArgs[k]
ConfirmTyped(p, k) ==
  out'.p = p /\ out'.events # <<>>
  /\ out'.events[1] = [ev |-> "PetnameRename", arg |-> k]
\* the step is player p's ".petname cancel"
CancelTyped(p) ==
  out'.p = p /\ out'.events # <<>> /\ out'.events[1].ev = "PetnameCancel"
\* the last message of the step
LastMessage == out'.events[Len(out'.events)].ev
\* the name-grammar of the rename: 2 to 16 characters, a letter at both ends,
\* letters, space, hyphen and apostrophe between
Grammatical(n) ==
  /\ Len(n) >= 2 /\ Len(n) <= 16
  /\ \A i \in 1..Len(n) :
       \/ IsAlpha(n[i])
       \/ i # 1 /\ i # Len(n) /\ n[i] \in {" ", "-", "'"}
\* the name holds a word of the denylist, letter case ignored
Denylisted(n) ==
  \E w \in ProfanityFile \ {<<>>} : \E i \in 0..(Len(n) - Len(w)) :
    \A j \in 1..Len(w) : ToLowerChar(n[i + j]) = ToLowerChar(w[j])
\* the trimmed text passes the grammar and, with the profanity filter
\* switched on, the denylist
ValidName(k) ==
  LET n == Trim(RenameArgs[k])
  IN  Grammatical(n) /\ ~(sConfig.ProfanityFilter /\ Denylisted(n))
\* the store with the name of the record (p, e) set to n
Renamed(store, p, e, n) ==
  [store EXCEPT ![p] =
     [i \in 1..Len(@) |-> IF @[i].entry = e THEN [@[i] EXCEPT !.name = n] ELSE @[i]]]
\* every record of a tracked-list cache is a record of the store, name included
CachedNamesCurrent ==
  \A p \in DOMAIN rt.trackedPetsCache :
    \A i \in 1..Len(rt.trackedPetsCache[p]) :
      \E j \in 1..Len(tamed_pets[p]) : tamed_pets[p][j] = rt.trackedPetsCache[p][i]

\* C11 as stated: a rename confirm in AwaitingRename(e) whose trimmed name
\* fails the grammar or holds a denylisted word (case ignored) is rejected: the
\* store and the caches are unchanged (the tracked-list cache is not
\* invalidated), and the flag and its target stay armed.
C11_InvalidNameKeepsArmed ==
  [][\A p \in Players, e \in EntriesIn(tames), k \in 1..Len(RenameArgs) :
       (/\ AwaitingRename(p, e) /\ ConfirmTyped(p, k)
        /\ (~Grammatical(Trim(RenameArgs[k])) \/ Denylisted(Trim(RenameArgs[k])))) =>
         /\ tamed_pets' = tamed_pets
         /\ rt' = rt
         /\ AwaitingRename(p, e)'
         /\ LastMessage \in {"InvalidName", "Usage"}]_vars

\* C11: a rename confirm in AwaitingRename(e) whose trimmed name fails the
\* grammar, or holds a denylisted word (case ignored) while the profanity
\* filter is switched on, is rejected: the store and the caches are unchanged
\* (the tracked-list cache is not invalidated), and the flag and its target
\* stay armed.
C11_InvalidNameRejected ==
  [][\A p \in Players, e \in EntriesIn(tames), k \in 1..Len(RenameArgs) :
       (AwaitingRename(p, e) /\ ConfirmTyped(p, k) /\ ~ValidName(k)) =>
         /\ tamed_pets' = tamed_pets
         /\ rt' = rt
         /\ AwaitingRename(p, e)'
         /\ LastMessage \in {"InvalidName", "Usage"}]_vars

\* C11's case: a confirm with a name that holds a denylisted word in other
\* letter case was rejected while the target's record has its old name, is in
\* the tracked-list cache, and the rename is still pending
C11_Witness ==
  \E p \in Players, e \in EntriesIn(tames) :
    /\ sConfig.ProfanityFilter
    /\ out.p = p
    /\ out.events = <<[ev |-> "PetnameRename", arg |-> 3], [ev |-> "InvalidName", arg |-> 0]>>
    /\ AwaitingRename(p, e)
    /\ p \in DOMAIN rt.trackedPetsCache
    /\ \E i \in 1..Len(tamed_pets[p]) :
         tamed_pets[p][i] = [entry |-> e, name |-> DefaultPetName]

\* C12: a rename confirm in AwaitingRename(e) with a name whose trimmed form
\* is valid sets the name of the record (owner, e) to the trimmed name and
\* changes no other record, clears the flag and the target, and removes the
\* owner's tracked-list cache (nothing else of the caches changes), so that a
\* tracked-list cache never holds a record the store has under another name.
C12_ValidNameRenames ==
  /\ [][\A p \in Players, e \in EntriesIn(tames), k \in 1..Len(RenameArgs) :
          (AwaitingRename(p, e) /\ ConfirmTyped(p, k) /\ ValidName(k)) =>
            /\ tamed_pets' = Renamed(tamed_pets, p, e, Trim(RenameArgs[k]))
            /\ Idle(p)'
            /\ p \notin DOMAIN rt'.trackedPetsCache
            /\ rt' = [rt EXCEPT !.trackedPetsCache =
                        [q \in DOMAIN @ \ {p} |-> @[q]]]]_vars
  /\ []CachedNamesCurrent

\* C12's case: with two records and the tracked-list cache built, a confirm
\* renamed one record to the trimmed name; the other has its old name, the
\* rename is over and the cache is gone
C12_Witness ==
  \E p \in Players :
    /\ out.p = p
    /\ out.events[1] = [ev |-> "PetnameRename", arg |-> 1]
    /\ HasEvent("Renamed")
    /\ Idle(p)
    /\ p \notin DOMAIN rt.trackedPetsCache
    /\ Len(tamed_pets[p]) = 2
    /\ \E i, j \in 1..2 :
         /\ tamed_pets[p][i].name = <<"A", "l">>
         /\ tamed_pets[p][j].name = DefaultPetName

\* C13: with no rename pending for the player, the confirm (whatever the name)
\* and the cancel are both rejected: the store, the caches and the player's
\* flag and target are unchanged.
C13_IdleRejects ==
  [][\A p \in Players :
       (Idle(p) /\ (CancelTyped(p) \/ \E k \in 1..Len(RenameArgs) : ConfirmTyped(p, k))) =>
         /\ tamed_pets' = tamed_pets
         /\ rt' = rt
         /\ player' = player
         /\ LastMessage = "NotRenaming"]_vars

\* C13's case: a player with a record under its first name and no rename
\* pending typed a confirm with a valid name, which was rejected
C13_Witness ==
  \E p \in Players :
    /\ out.p = p
    /\ out.events = <<[ev |-> "PetnameRename", arg |-> 1], [ev |-> "NotRenaming", arg |-> 0]>>
    /\ Idle(p)
    /\ tamed_pets[p] # <<>>
    /\ \A i \in 1..Len(tamed_pets[p]) : tamed_pets[p][i].name = DefaultPetName

\* the last call was a cancel of player p that was accepted
CancelAccepted(p) ==
  /\ out.p = p
  /\ out.events = <<[ev |-> "PetnameCancel", arg |-> 0], [ev |-> "RenameCancelled", arg |-> 0]>>

\* C14: a cancel in AwaitingRename(e) clears the flag and the target
\* whatever else holds, and changes no record and no cache; a confirm that
\* follows the cancel is rejected as "not renaming" and changes no record.
C14_CancelClears ==
  [][\A p \in Players :
       /\ \A e \in EntriesIn(tames) :
            (AwaitingRename(p, e) /\ CancelTyped(p)) =>
              /\ Idle(p)'
              /\ tamed_pets' = tamed_pets
              /\ rt' = rt
              /\ CancelAccepted(p)'
       /\ \A k \in 1..Len(RenameArgs) :
            (CancelAccepted(p) /\ ConfirmTyped(p, k)) =>
              /\ LastMessage = "NotRenaming"
              /\ tamed_pets' = tamed_pets
              /\ Idle(p)']_vars

\* C14's case: a rename was pending and has been cancelled; the player's
\* records are there with their names
C14_Witness ==
  \E p \in Players :
    /\ CancelAccepted(p)
    /\ Idle(p)
    /\ Len(tamed_pets[p]) = 2
    /\ \A i \in 1..2 : tamed_pets[p][i].name = DefaultPetName

\* the step is the delivery to player p of the rename item of slot idx of the
\* tracked menu
RenameSelected(p, idx) ==
  /\ out'.p = p
  /\ Selected'
  /\ Clicked'.ev = "Rename"
  /\ SelectedCode' = RenameBase + idx

\* C15: selecting tracked-rename on slot i arms the flag with the entry the
\* slot map holds for slot i, whatever was pending before, and closes the
\* menu without changing a record; a confirm that renames changes no record
\* but the one of the pending target, the last one selected.
C15_RenameArmsLastSelected ==
  [][\A p \in Players :
       /\ \A idx \in 0..(TrackedPageSize - 1), e \in EntriesIn(tames) :
            (RenameSelected(p, idx) /\ SlotEntry(Cur, p, idx) = Some(e)) =>
              /\ AwaitingRename(p, e)'
              /\ ~player'[p].gossip.open
              /\ tamed_pets' = tamed_pets
       /\ \A k \in 1..Len(RenameArgs) :
            (ConfirmTyped(p, k) /\ tamed_pets' # tamed_pets) =>
              \E e \in EntriesIn(tames) :
                /\ AwaitingRename(p, e)
                /\ \A q \in Players : \A i \in 1..Len(tamed_pets[q]) :
                     (q # p \/ tamed_pets[q][i].entry # e) =>
                        tamed_pets'[q][i] = tamed_pets[q][i]]_vars

\* C15's case: the rename of the record at slot 1 has just been selected, the
\* menu is closed, and the record at slot 0, selected and renamed before, is
\* the only one with a new name
C15_Witness ==
  \E p \in Players :
    /\ out.p = p
    /\ Selected
    /\ SelectedCode = RenameBase + 1
    /\ Clicked.ev = "Rename"
    /\ ~player[p].gossip.open
    /\ Len(tamed_pets[p]) = 2
    /\ AwaitingRename(p, tamed_pets[p][1].entry)
    /\ tamed_pets[p][1].name = DefaultPetName
    /\ tamed_pets[p][2].name = <<"A", "l">>

\* the last call was IsValidPetName(n)
NameChecked(n) ==
  out.events # <<>> /\ out.events[1] = [ev |-> "IsValidPetName", arg |-> n]
\* and it returned true
NameAccepted == out.events[2].arg = 1

\* C16: the name-grammar check accepts a name if and only if its length is
\* between 2 and 16, its first and last characters are letters, and every
\* interior character is a letter, space, hyphen or apostrophe; a two-letter
\* name is accepted, and a one-letter name, a name with a digit and a name with
\* a blank at either end are rejected.
C16_NameGrammar ==
  \A n \in NameInputs :
    NameChecked(n) =>
      /\ NameAccepted <=> Grammatical(n)
      /\ (Len(n) = 2 /\ IsAlpha(n[1]) /\ IsAlpha(n[2])) => NameAccepted
      /\ Len(n) = 1 => ~NameAccepted
      /\ (\E i \in 1..Len(n) : n[i] = "1") => ~NameAccepted
      /\ (n # <<>> /\ (n[1] = " " \/ n[Len(n)] = " ")) => ~NameAccepted

\* C16's case: a name of two letters, one of each case, was accepted
C16_Witness ==
  /\ NameChecked(<<"Z", "a">>)
  /\ NameAccepted

(***************************************************************************)
(* Eligibility                                                             *)
(***************************************************************************)
\* the last call was player p opening the main menu at the NPC
HelloCalled(p) ==
  out.p = p /\ out.events # <<>> /\ out.events[1].ev = "GossipHello"
\* the last event of the call
LastEvent == out.events[Len(out.events)].ev
\* the refusals a player is told
Refusals ==
  {"NoPetsAvailable", "HuntersOnly", "ClassNotAllowed", "RaceNotAllowed",
   "LevelTooLow", "LevelTooHigh"}
\* the main menu was sent to player p
MenuSent(p) == LastEvent = "MainMenu" /\ player[p].gossip.open
\* the six checks in their order, each with the refusals that tell its failure;
\* the class restriction fails when either of its two messages applies
GateChecks(p) ==
  LET c == rt.config
      pl == player[p]
  IN  <<[fails |-> ~sConfig.Enable, told |-> Refusals],
        [fails |-> rt.allPets = <<>>, told |-> {"NoPetsAvailable"}],
        [fails |-> \/ c.hunterOnly /\ pl.class # CLASS_HUNTER
                   \/ c.allowedClasses # {} /\ pl.class \notin c.allowedClasses,
         told |-> {"HuntersOnly", "ClassNotAllowed"}],
        [fails |-> c.allowedRaces # {} /\ pl.race \notin c.allowedRaces,
         told |-> {"RaceNotAllowed"}],
        [fails |-> c.minLevel # 0 /\ pl.level < c.minLevel, told |-> {"LevelTooLow"}],
        [fails |-> c.maxLevel # 0 /\ pl.level > c.maxLevel, told |-> {"LevelTooHigh"}]>>

\* C17: opening the main menu evaluates the checks in the order module
\* enabled, catalog non-empty (after the lazy reload), class, race, minimum
\* level, maximum level; the first failing check decides: the player is told a
\* refusal of that check and no menu is sent; the menu is sent exactly when all
\* six pass.
C17_EligibilityOrder ==
  \A p \in Players :
    HelloCalled(p) =>
      LET checks == GateChecks(p)
          failing == {i \in 1..Len(checks) : checks[i].fails}
      IN  IF failing = {} THEN MenuSent(p)
          ELSE LET first == CHOOSE i \in failing : \A j \in failing : i <= j
               IN  /\ ~MenuSent(p)
                   /\ ~HasEvent("MainMenu")
                   /\ LastEvent \in checks[first].told

\* the class restriction: in hunter-only mode hunters pass, otherwise the
\* members of a non-empty allowed-class set pass, and everyone if it is empty
ClassPasses(p) ==
  IF rt.config.hunterOnly THEN player[p].class = CLASS_HUNTER
  ELSE rt.config.allowedClasses # {} => player[p].class \in rt.config.allowedClasses

\* C18: with the module enabled and a catalog loaded, a player who opens the
\* main menu is refused for their class exactly when the class restriction
\* fails: in hunter-only mode when they are no hunter (the allowed-class set is
\* not consulted), otherwise when the set is non-empty and their class is not
\* in it.
C18_ClassRestriction ==
  \A p \in Players :
    (HelloCalled(p) /\ sConfig.Enable /\ rt.allPets # <<>>) =>
      (LastEvent \in {"HuntersOnly", "ClassNotAllowed"} <=> ~ClassPasses(p))

(***************************************************************************)
(* Refused adoptions                                                       *)
(***************************************************************************)
\* the step is an adoption attempt of player p for creature e
Attempt(p, e) == out'.p = p /\ Selected' /\ HasEventArg("CreatePet", e)'
\* creature e is exotic in the loaded catalog
ExoticEntry(e) ==
  e \in DOMAIN rt.allPetsByEntry /\ rt.allPetsByEntry[e].rarity = "exotic"
\* player p may not adopt exotic creatures: no hunter and no global exotic
\* access, or a hunter without the talent under talent-gating
ExoticBarred(p) ==
  IF player[p].class # CLASS_HUNTER THEN ~rt.config.allowExotic
  ELSE rt.config.hunterBeastMasteryRequired /\ ~player[p].talent
\* player p is at the cap of tracked records
AtCap(p) == CapOn /\ Len(tamed_pets[p]) >= rt.config.maxTrackedPets
\* the messages of a refused attempt
AdoptRefusals == {"AbandonFirst", "OnlyHuntersExotic", "NeedBeastMastery", "MaxTracked"}

\* C19: an adoption attempt by a player who has a live pet, or for an exotic
\* entry by a player who may not adopt exotic creatures, or at the tracked
\* capacity, is refused with a message and mutates nothing but the menu, which
\* is closed: no pet is created, the store, the tamed-entry and tracked-list
\* caches and the rest of the runtime are unchanged, and the player's
\* abilities and every other field of the player are as before.
C19_RefusalMutatesNothing ==
  [][\A p \in Players, e \in EntriesIn(tames) :
       (/\ Attempt(p, e)
        /\ \/ IsSome(player[p].pet)
           \/ ExoticEntry(e) /\ ExoticBarred(p)
           \/ AtCap(p)) =>
         /\ LastMessage \in AdoptRefusals
         /\ ~HasEvent("Adopted")'
         /\ tamed_pets' = tamed_pets
         /\ rt' = rt
         /\ player' = [player EXCEPT ![p].gossip = [open |-> FALSE, menuId |-> 0, items |-> <<>>]]]_vars

\* C19's case: a mage without global exotic access, with no pet, no record
\* and no granted ability, tried to adopt the exotic creature and was refused
C19_Witness ==
  \E p \in Players :
    /\ out.p = p
    /\ HasEventArg("CreatePet", 5000)
    /\ LastEvent = "OnlyHuntersExotic"
    /\ player[p].class = CLASS_MAGE
    /\ player[p].pet = None
    /\ player[p].spells = {}
    /\ tamed_pets[p] = <<>>

\* the last call was an adoption of creature e by player p that succeeded
Adopted(p, e) == out.p = p /\ HasEventArg("Adopted", e)

\* C20: an attempt to adopt an exotic entry by a non-hunter without global
\* exotic access, or by a hunter who lacks the talent under talent-gating, is
\* refused; under a fixed configuration no such player is ever the one an
\* adoption of an exotic entry succeeded for.
C20_ExoticRefused ==
  /\ [][\A p \in Players, e \in EntriesIn(tames) :
          (Attempt(p, e) /\ ExoticEntry(e) /\ ExoticBarred(p)) =>
            /\ ~HasEvent("Adopted")'
            /\ player'[p].pet = player[p].pet
            /\ LastMessage \in {"AbandonFirst", "OnlyHuntersExotic", "NeedBeastMastery"}]_vars
  /\ [](\A p \in Players, e \in EntriesIn(tames) :
          (Adopted(p, e) /\ ExoticEntry(e)) =>
            /\ ~ExoticBarred(p)
            /\ IsSome(player[p].pet) /\ Val(player[p].pet).entry = e)

\* C20's case: a hunter without the talent, under talent-gating, tried to
\* adopt the exotic creature and was refused for the missing talent
C20_Witness ==
  \E p \in Players :
    /\ out.p = p
    /\ HasEventArg("CreatePet", 5000)
    /\ LastEvent = "NeedBeastMastery"
    /\ player[p].class = CLASS_HUNTER
    /\ ~player[p].talent
    /\ rt.config.hunterBeastMasteryRequired
    /\ player[p].pet = None

(***************************************************************************)
(* Pagination                                                              *)
(***************************************************************************)
\* the page the last browse call rendered
RenderedPage == out.events[Len(out.events)].arg
\* ceil(n / p)
CeilDiv(n, p) == (n + p - 1) \div p
\* player p's open menu has an item of the kind
HasItem(p, k) ==
  \E i \in 1..Len(player[p].gossip.items) : player[p].gossip.items[i].kind = k
\* the "previous" and "next" items of a render of page k of a bucket of size n
NavByPage(p, k, n) ==
  /\ HasItem(p, "Previous") <=> k > 1
  /\ HasItem(p, "Next") <=> k < CeilDiv(n, PageSize)

\* C21 as stated: a browse render of page k of a bucket of size n emits the
\* "previous" item iff k > 1 and the "next" item iff k < ceil(n / PageSize),
\* and a render of an empty bucket has neither item.
C21_NavItems ==
  \A p \in Players :
    BrowseRendered(p) =>
      /\ NavByPage(p, RenderedPage, Len(BrowsedBucket))
      /\ Len(BrowsedBucket) = 0 =>
           ~HasItem(p, "Previous") /\ ~HasItem(p, "Next")

\* C21 amended: a browse render of page k of a bucket of size n emits the
\* "previous" item iff k > 1 and the "next" item iff k < ceil(n / PageSize); so
\* page 1 never has "previous", page maxPage never has "next", and a render of
\* an empty bucket never has "next", and has "previous" exactly when the page
\* rendered is not the first.
C21_NavItemsByPage ==
  \A p \in Players :
    BrowseRendered(p) =>
      LET k == RenderedPage
          n == Len(BrowsedBucket)
      IN  /\ NavByPage(p, k, n)
          /\ k = 1 => ~HasItem(p, "Previous")
          /\ k = CeilDiv(n, PageSize) => ~HasItem(p, "Next")
          /\ n = 0 => ~HasItem(p, "Next") /\ (HasItem(p, "Previous") <=> k # 1)

\* page 2 of a bucket of three pages is rendered, with both items
C21_Witness ==
  /\ BrowseRendered(1)
  /\ RenderedPage = 2
  /\ CeilDiv(Len(BrowsedBucket), PageSize) = 3
  /\ HasItem(1, "Previous") /\ HasItem(1, "Next")

\* the creatures player p's open menu lists, adoptable or already tamed, in
\* menu order
ListedEntries(p) ==
  LET listed == SelectSeq(player[p].gossip.items,
                          LAMBDA it : it.kind \in {"Adopt", "AlreadyTamed"})
  IN  [i \in 1..Len(listed) |-> listed[i].arg]
\* the one page the c-th entry of a bucket belongs to
PageOfEntry(c) == ((c - 1) \div PageSize) + 1
\* the entries of a bucket that belong to page k, in bucket order
EntriesOfPage(bucket, k) ==
  LET at == SelectSeq([c \in 1..Len(bucket) |-> c], LAMBDA c : PageOfEntry(c) = k)
  IN  [i \in 1..Len(at) |-> bucket[at[i]].entry]

\* C22: the page windows of pages 1..maxPage partition the bucket: a render of
\* page k lists exactly the entries whose position c in the bucket has
\* (c - 1) div PageSize + 1 = k, in bucket order, so every entry is listed on
\* exactly one page and that page is in 1..maxPage; a page lists at most
\* PageSize entries, and a page beyond maxPage lists nothing.
C22_WindowsPartition ==
  \A p \in Players :
    BrowseRendered(p) =>
      LET k == RenderedPage
          n == Len(BrowsedBucket)
      IN  /\ ListedEntries(p) = EntriesOfPage(BrowsedBucket, k)
          /\ Len(ListedEntries(p)) <= PageSize
          /\ k > CeilDiv(n, PageSize) => ListedEntries(p) = <<>>
          /\ \A c \in 1..n : PageOfEntry(c) \in 1..CeilDiv(n, PageSize)

\* the last page of a bucket of PageSize + 1 entries is rendered and lists the
\* one entry left over by the first page
C22_Witness ==
  /\ BrowseRendered(1)
  /\ RenderedPage = 2
  /\ Len(BrowsedBucket) = PageSize + 1
  /\ ListedEntries(1) = <<BrowsedBucket[PageSize + 1].entry>>

(***************************************************************************)
(* The empty catalog                                                       *)
(***************************************************************************)
\* the catalog and the four buckets hold nothing
CatalogEmpty ==
  /\ rt.allPets = <<>> /\ rt.allPetsByEntry = EmptyMap
  /\ rt.normalPets = <<>> /\ rt.exoticPets = <<>>
  /\ rt.rarePets = <<>> /\ rt.rareExoticPets = <<>>
\* the last handler call ran LoadSystem and its query yielded no rows
LoadedNothing == HasEventArg("LoadSystem", 0)
\* the last handler call was a menu-open of player p that found the catalog
\* empty and whose reload yielded nothing
OpenedOnEmpty(p) == HelloCalled(p) /\ LoadedNothing

\* C24: a Load whose query yields no rows leaves the catalog and the four
\* buckets empty; a menu-open that finds the catalog empty and whose one lazy
\* reload yields nothing ends with the "no pets available" refusal and sends no
\* menu; and once a Load has yielded rows a menu-open sends the main menu.
C24_EmptyCatalogDegrades ==
  /\ [](LoadedNothing => CatalogEmpty)
  /\ [](\A p \in Players :
          OpenedOnEmpty(p) =>
            /\ ~crashed
            /\ out.events = <<[ev |-> "GossipHello", arg |-> 0],
                              [ev |-> "LoadSystem", arg |-> 0],
                              [ev |-> "NoPetsAvailable", arg |-> 0]>>
            /\ player[p].gossip.items = <<>>)
  /\ [](\A p \in Players : (HelloCalled(p) /\ ~CatalogEmpty) => MenuSent(p))
  /\ [][\A p \in Players :
          (CatalogEmpty /\ HelloCalled(p)' /\ tames # <<>>) =>
            (~CatalogEmpty' /\ MenuSent(p)')]_vars

\* a menu-open finds the catalog empty, reloads it from an empty table and is
\* refused for want of pets
C24_Witness ==
  /\ OpenedOnEmpty(1)
  /\ LastEvent = "NoPetsAvailable"
  /\ CatalogEmpty
  /\ tames = <<>>

\* the category a browse code belongs to
CategoryOf(a) ==
  IF IsBrowseNormal(a) THEN "normal"
  ELSE IF IsBrowseExotic(a) THEN "exotic"
  ELSE IF IsBrowseRare(a) THEN "rare"
  ELSE IF IsBrowseRareExotic(a) THEN "rareExotic"
  ELSE "none"
\* the step is player p selecting an item of the kind
Selects(p, k) == out'.p = p /\ Selected' /\ Clicked'.ev = k

\* C27: on page k in 1..maxPage of a category, selecting the "next" item the
\* page offers renders page k + 1 of the same category and selecting the
\* "previous" item renders page k - 1 of the same category, however large the
\* bucket is: page navigation never lands in another category or another kind
\* of action.
C27_NavigationStaysInCategory ==
  [][\A p \in Players :
       (/\ BrowseRendered(p)
        /\ RenderedPage \in 1..CeilDiv(Len(BrowsedBucket), PageSize)
        /\ (Selects(p, "Next") \/ Selects(p, "Previous"))) =>
         /\ BrowseRendered(p)'
         /\ CategoryOf(SelectedCode') = CategoryOf(SelectedCode)
         /\ RenderedPage' = IF Selects(p, "Next") THEN RenderedPage + 1
                            ELSE RenderedPage - 1]_vars


(***************************************************************************)
(* The slot map of the tracked menu                                        *)
(***************************************************************************)
\* the entries of the records the menu player p has open lists, in order: one
\* summon item for each
ListedRecords(p) ==
  LET items == SelectSeq(player[p].gossip.items, LAMBDA it : it.kind = "Summon")
  IN  [k \in 1..Len(items) |-> items[k].arg]
\* player p's slot map holds an entry for slot i, counted from 0
SlotHeld(p, i) ==
  player[p].petMap # None /\ i + 1 \in DOMAIN player[p].petMap[1]
\* the step is the delivery to player p of the code of a slot action
SlotSelected(p) ==
  /\ out'.p = p
  /\ Selected'
  /\ \/ IsTrackedSummon(SelectedCode')
     \/ IsTrackedRename(SelectedCode')
     \/ IsTrackedDelete(SelectedCode')
\* the slot a slot-action code names
SlotOfCode(a) ==
  IF IsTrackedSummon(a) THEN a - SummonBase
  ELSE IF IsTrackedRename(a) THEN a - RenameBase ELSE a - DeleteBase
\* the step records event ev with argument x
Recorded(ev, x) ==
  \E k \in 1..Len(out'.events) : out'.events[k] = [ev |-> ev, arg |-> x]
\* player p's state but for the menu on screen
Kept(p) ==
  [player[p] EXCEPT !.gossip = [open |-> FALSE, menuId |-> 0, items |-> <<>>]]

\* C28: every tracked-menu render overwrites the player's slot map with
\* exactly the mapping i -> entry of the i-th record listed on that page, for
\* at most pageSize records, the items of the i-th carrying the codes of slot
\* i; a summon, rename or delete of slot i then acts on exactly that entry;
\* and a slot action whose index is absent from the slot map, or with no slot
\* map, changes nothing.
C28_SlotMap ==
  /\ [](\A p \in Players, page \in 1..2 :
          TrackedMenuRendered(p, page) =>
            /\ player[p].petMap = Some(ListedRecords(p))
            /\ Len(ListedRecords(p)) <= TrackedPageSize
            /\ \A k \in 1..Len(ListedRecords(p)) :
                 /\ player[p].gossip.items[(3 * k) - 2].code = SummonBase + k - 1
                 /\ player[p].gossip.items[(3 * k) - 1].code = RenameBase + k - 1
                 /\ player[p].gossip.items[3 * k].code = DeleteBase + k - 1)
  /\ [][\A p \in Players :
          SlotSelected(p) =>
            LET a == SelectedCode'
                i == SlotOfCode(a)
            IN  IF SlotHeld(p, i)
                THEN LET e == player[p].petMap[1][i + 1]
                     IN  /\ IsTrackedSummon(a) =>
                              \/ /\ Recorded("Summoned", e)
                                 /\ player[p].pet = None
                                 /\ player'[p].pet # None
                                 /\ player'[p].pet[1].entry = e
                              \/ /\ HasEvent("AbandonFirst")' \/ HasEvent("SummonFailed")'
                                 /\ player'[p].pet = player[p].pet
                         /\ IsTrackedRename(a) =>
                              /\ player'[p].renameEntry = Some(e)
                              /\ player'[p].expectRename = Some(TRUE)
                         /\ IsTrackedDelete(a) =>
                              /\ Recorded("Deleted", e)
                              /\ tamed_pets' = [tamed_pets EXCEPT ![p] =
                                                  SelectSeq(@, LAMBDA r : r.entry # e)]
                ELSE /\ tamed_pets' = tamed_pets
                     /\ rt' = rt
                     /\ crashed' = crashed
                     /\ Kept(p)' = Kept(p)
                     /\ \A q \in Players \ {p} : player'[q] = player[q]
                     /\ Len(out'.events) = 3]_vars

\* C28's case: a delete on a list one longer than a page is followed by a
\* render whose slot map is full and holds, in its last slot, the record the
\* page before had no room for
C28_Witness ==
  \E p \in Players :
    /\ TrackedMenuRendered(p, 1)
    /\ HasEvent("Deleted")
    /\ player[p].petMap # None
    /\ Len(player[p].petMap[1]) = TrackedPageSize
    /\ player[p].petMap[1][TrackedPageSize] = ManyRows[1].entry
\* a slot item is selected after a confirmed rename erased the slot map
AbsentSlotSelected ==
  \E p \in Players :
    /\ out.p = p /\ Selected
    /\ IsTrackedSummon(SelectedCode)
    /\ player[p].petMap = None


(***************************************************************************)
(* The main menu                                                           *)
(***************************************************************************)
\* the options the main menu sent to player p offers
Offered(p) ==
  {player[p].gossip.items[i].kind : i \in 1..Len(player[p].gossip.items)}
\* player p holds Beast Mastery, as a talent or as a spell
HoldsBeastMastery(p) ==
  player[p].talent \/ PET_SPELL_BEAST_MASTERY \in player[p].spells

\* C29: the main menu always offers browse-normal, browse-rare and the vendor
\* option; offers browse-exotic and browse-rare-exotic iff (exotic access is
\* globally allowed or the player holds the talent or the spell) and (the
\* player is not a hunter, or talent-gating is off, or the player has the
\* talent); offers the unlearn option iff the player is a non-hunter holding
\* the call-pet ability; offers the tracked-pets entry iff tracking is
\* enabled; offers the stable option iff the player is a hunter; and offers
\* nothing else, nor anything twice.
C29_MainMenuOffers ==
  \A p \in Players :
    (out.p = p /\ MenuSent(p)) =>
      LET hunter == player[p].class = CLASS_HUNTER
          exotic ==
            /\ rt.config.allowExotic \/ HoldsBeastMastery(p)
            /\ ~hunter \/ ~rt.config.hunterBeastMasteryRequired \/ player[p].talent
      IN  /\ {"Browse", "BrowseRare", "Vendor"} \subseteq Offered(p)
          /\ "BrowseExotic" \in Offered(p) <=> exotic
          /\ "BrowseRareExotic" \in Offered(p) <=> exotic
          /\ "Unlearn" \in Offered(p) <=>
               (~hunter /\ PET_SPELL_CALL_PET \in player[p].spells)
          /\ "MyTamedPets" \in Offered(p) <=> rt.config.trackTamedPets
          /\ "Stable" \in Offered(p) <=> hunter
          /\ Offered(p) \subseteq
               {"Browse", "BrowseRare", "BrowseExotic", "BrowseRareExotic",
                "Unlearn", "MyTamedPets", "Stable", "Vendor"}
          /\ Cardinality(Offered(p)) = Len(player[p].gossip.items)

\* C29's case: a hunter without the talent, holding the Beast Mastery spell
\* while exotic access is not globally allowed, is sent a main menu without
\* the two exotic options under talent-gating, with the stable option and the
\* tracked-pets entry
C29_Witness ==
  \E p \in Players :
    /\ out.p = p /\ MenuSent(p)
    /\ player[p].class = CLASS_HUNTER
    /\ ~player[p].talent
    /\ PET_SPELL_BEAST_MASTERY \in player[p].spells
    /\ ~rt.config.allowExotic
    /\ rt.config.hunterBeastMasteryRequired
    /\ Offered(p) = {"Browse", "BrowseRare", "MyTamedPets", "Stable", "Vendor"}
\* a mage who adopted a pet is offered the unlearn option and, exotic access
\* being allowed, the two exotic options
MageMenuSent ==
  \E p \in Players :
    /\ out.p = p /\ MenuSent(p)
    /\ player[p].class = CLASS_MAGE
    /\ {"Unlearn", "BrowseExotic", "BrowseRareExotic"} \subseteq Offered(p)
    /\ "Stable" \notin Offered(p)


(***************************************************************************)
(* The exotic categories and the Beast Mastery spell                       *)
(***************************************************************************)
\* the step is the delivery to player p of a code of the exotic or the
\* rare-exotic category
ExoticOpened(p) ==
  /\ out'.p = p
  /\ Selected'
  /\ IsBrowseExotic(SelectedCode') \/ IsBrowseRareExotic(SelectedCode')
\* the step is a call of CreatePet for player p and the exotic entry e
ExoticAdoptionTried(p, e) ==
  /\ out'.p = p
  /\ Recorded("CreatePet", e)
  /\ e \in DOMAIN rt'.allPetsByEntry
  /\ rt'.allPetsByEntry[e].rarity = "exotic"

\* C30: opening the exotic or rare-exotic category grants the Beast Mastery
\* spell to a player who holds neither the spell nor the talent, and grants
\* nothing when it is already held; it never gives the talent, and it is not an
\* eligibility bypass: a hunter without the talent is refused under
\* talent-gating when adopting an exotic entry, whether or not the spell was
\* granted by browsing the exotic category before.
C30_GrantIsNoBypass ==
  [][\A p \in Players :
       /\ player'[p].talent = player[p].talent
       /\ ExoticOpened(p) =>
            IF HoldsBeastMastery(p)
            THEN /\ player'[p].spells = player[p].spells
                 /\ ~Recorded("TaughtBeastMastery", 0)
            ELSE /\ player'[p].spells =
                      player[p].spells \cup {PET_SPELL_BEAST_MASTERY}
                 /\ Recorded("TaughtBeastMastery", 0)
       /\ \A e \in DOMAIN rt'.allPetsByEntry :
            (/\ ExoticAdoptionTried(p, e)
             /\ player[p].class = CLASS_HUNTER
             /\ ~player[p].talent
             /\ rt'.config.hunterBeastMasteryRequired)
              => /\ player'[p].pet = player[p].pet
                 /\ ~Recorded("Adopted", e)
                 /\ player[p].pet = None => Recorded("NeedBeastMastery", 0)]_vars

\* C30's case: a hunter without the talent who was taught the spell by the
\* exotic category selects the exotic creature under talent-gating and is
\* told the talent is needed
C30_Witness ==
  \E p \in Players :
    /\ out.p = p /\ Selected
    /\ HasEventArg("CreatePet", 5000)
    /\ HasEvent("NeedBeastMastery")
    /\ player[p].class = CLASS_HUNTER
    /\ ~player[p].talent
    /\ PET_SPELL_BEAST_MASTERY \in player[p].spells
    /\ player[p].pet = None


(***************************************************************************)
(* The cooldown of the summon command                                      *)
(***************************************************************************)
\* the step is a summon attempt of player p
SummonTried(p) ==
  out'.p = p /\ out'.events # <<>> /\ out'.events[1].ev = "Beastmaster"
\* the attempt of the step was refused for the cooldown
SummonRefused == \E k \in 1..Len(out'.events) : out'.events[k].ev = "MustWait"
\* the attempt of the step went on to summon the NPC
SummonAccepted == Recorded("SummonCreature", now)

\* C26: the stored last-summon time of a player is the time t of the last
\* accepted summon of that player; every summon attempt of the player at a
\* time t' with t' - t < cooldown is refused and leaves the stored times as
\* they are; an attempt with t' - t >= cooldown, or of a player who has not
\* summoned yet, is accepted and stores t' for that player alone; so one
\* player's cooldown never blocks another player.
C26_SummonCooldown ==
  [][/\ \A p \in Players :
          SummonTried(p) =>
            IF p \in DOMAIN lastSummonTime
               /\ now - lastSummonTime[p] < sConfig.SummonCooldown
            THEN /\ SummonRefused
                 /\ ~SummonAccepted
                 /\ lastSummonTime' = lastSummonTime
            ELSE /\ SummonAccepted
                 /\ ~SummonRefused
                 /\ DOMAIN lastSummonTime' = DOMAIN lastSummonTime \cup {p}
                 /\ lastSummonTime'[p] = now
                 /\ \A q \in DOMAIN lastSummonTime \ {p} :
                      lastSummonTime'[q] = lastSummonTime[q]
     /\ (~\E p \in Players : SummonTried(p)) => lastSummonTime' = lastSummonTime
    ]_vars

\* C26's case: a player is refused one second before the end of the cooldown
\* in the second in which another player's summon was accepted
C26_Witness ==
  \E p \in Players, q \in Players :
    /\ p # q
    /\ out.p = p
    /\ HasEventArg("MustWait", 1)
    /\ sConfig.SummonCooldown > 1
    /\ p \in DOMAIN lastSummonTime
    /\ now - lastSummonTime[p] = sConfig.SummonCooldown - 1
    /\ q \in DOMAIN lastSummonTime
    /\ lastSummonTime[q] = now
\* a summon is accepted in the second the cooldown ends
AcceptedAtEnd ==
  \E p \in Players :
    /\ out.p = p
    /\ HasEventArg("SummonCreature", now)
    /\ HasEventArg("Beastmaster", now)
    /\ sConfig.SummonCooldown = MaxClock \div 2
    /\ now >= 2 * sConfig.SummonCooldown


(***************************************************************************)
(* LoadSystem beside readers                                               *)
(***************************************************************************)
\* the step ends a browse of the normal category by player p
RenderFinished(p) ==
  p \in DOMAIN pc.select /\ p \notin DOMAIN pc'.select
\* the menu the same browse builds when it runs alone on the catalog as loaded
WholeRender(p) ==
  Browse([Cur EXCEPT !.player[p].gossip.items = <<>>], p, pc.select[p].action,
         PetsStart, rt.normalPets).player[p].gossip.items

\* C23: Load replaces the catalog atomically with respect to readers: under
\* any interleaving of Load with a menu render and its page-count computation
\* no reader observes a partially rebuilt catalog, so that every menu a
\* browse sends is the menu it builds when it runs alone on the loaded
\* catalog.
C23_LoadAtomicForReaders ==
  [][\A p \in Players :
       RenderFinished(p) => player'[p].gossip.items = WholeRender(p)]_vars


(***************************************************************************)
(* Two players adopting the same entry                                     *)
(***************************************************************************)
\* what the module keeps for player q: the tracked records, the tamed-entry
\* set, the tracked-list cache, and the player's pet, slot map, rename flag,
\* spells and menu
OwnedBy(q) ==
  [records |-> tamed_pets[q],
   tamed |-> IF q \in DOMAIN rt.tamedEntriesCache
             THEN Some(rt.tamedEntriesCache[q]) ELSE None,
   tracked |-> IF q \in DOMAIN rt.trackedPetsCache
               THEN Some(rt.trackedPetsCache[q]) ELSE None,
   player |-> player[q],
   call |-> IF q \in DOMAIN pc.select THEN Some(pc.select[q]) ELSE None]
\* the step ends an adoption of player p with the pet adopted
AdoptionDone(p) ==
  /\ out'.p = p
  /\ p \in DOMAIN pc.select
  /\ p \notin DOMAIN pc'.select
  /\ \E k \in 1..Len(out'.events) : out'.events[k].ev = "Adopted"
\* the records of player p for entry e after the step
RecordsAfter(p, e) == SelectSeq(tamed_pets'[p], LAMBDA r : r.entry = e)

\* C25: two different players adopting the same catalog entry concurrently
\* both succeed independently under every interleaving: no step of one
\* player's call changes what the module keeps for another player (tracked
\* records, tamed-entry set, tracked-list cache, slot map, rename flag, pet),
\* and every adoption that comes to its end leaves the player with a pet of
\* the entry and, with tracking on, with exactly one tracked record of it and
\* the entry in the player's tamed-entry set.
C25_AdoptionsIndependent ==
  [][\A p \in Players :
       /\ out'.p = p => \A q \in Players \ {p} : OwnedBy(q)' = OwnedBy(q)
       /\ AdoptionDone(p) =>
            LET e == pc.select[p].action - PetEntryOffset
            IN  /\ player'[p].pet # None
                /\ player'[p].pet[1].entry = e
                /\ player'[p].pet[1].happiness = PET_MAX_HAPPINESS
                /\ rt.config.trackTamedPets =>
                     /\ Len(RecordsAfter(p, e)) = 1
                     /\ p \in DOMAIN rt'.tamedEntriesCache
                     /\ e \in rt'.tamedEntriesCache[p]]_vars

\* C25's case: a player's adoption comes to its end while another player's
\* adoption of the same entry has inserted its record and not yet reached the
\* tamed-entry cache; both have their pet and their record
C25_Witness ==
  \E p \in Players, q \in Players :
    /\ p # q
    /\ out.p = p
    /\ HasEvent("Adopted")
    /\ q \in DOMAIN pc.select
    /\ pc.select[q].at = "cache"
    /\ pc.select[q].action = out.events[1].arg + PetEntryOffset
    /\ player[p].pet # None /\ player[q].pet # None
    /\ player[p].pet[1].entry = player[q].pet[1].entry
    /\ HasRow(Cur, p, player[p].pet[1].entry)
    /\ HasRow(Cur, q, player[q].pet[1].entry)
\* both adoptions have come to their end
BothAdopted ==
  /\ pc = NoCalls
  /\ rt.config.trackTamedPets
  /\ \A p \in Players :
       /\ player[p].pet # None
       /\ player[p].pet[1].entry = 5000
       /\ HasRow(Cur, p, 5000)
       /\ p \in DOMAIN rt.tamedEntriesCache
       /\ 5000 \in rt.tamedEntriesCache[p]

(***************************************************************************)
(* The abilities granted with an adoption                                  *)
(***************************************************************************)
\* the step is an adoption of player p that succeeded
AdoptionStep(p) ==
  /\ out'.p = p
  /\ \E i \in 1..Len(out'.events) : out'.events[i].ev = "Adopted"

\* C31: after any successful adoption by a non-hunter the player holds every
\* ability of the fixed set of hunter pet-control abilities, and the step
\* grants only abilities of the set that were not held: none is lost, none
\* from outside the set is added.
C31_GrantsWholeSet ==
  [][\A p \in Players :
       (AdoptionStep(p) /\ player[p].class # CLASS_HUNTER) =>
         /\ hunterSpells \subseteq player'[p].spells
         /\ player[p].spells \subseteq player'[p].spells
         /\ (player'[p].spells \ player[p].spells) \subseteq hunterSpells]_vars

(***************************************************************************)
(* The tracked summon                                                      *)
(***************************************************************************)
\* the name the store holds for the record (p, e), if there is one
StoredName(p, e) ==
  LET rows == SelectSeq(tamed_pets[p], LAMBDA r : r.entry = e)
  IN  IF rows = <<>> THEN None ELSE Some(rows[1].name)
\* the step is the delivery to player p of a summon code whose slot the slot
\* map holds
SummonSelected(p) ==
  /\ out'.p = p
  /\ Selected'
  /\ IsTrackedSummon(SelectedCode')
  /\ SlotHeld(p, SelectedCode' - SummonBase)
\* the pet the host creates for entry e, named nm if a name was found, happy
SummonedPet(e, nm) ==
  Some([entry |-> e, name |-> IF nm # None THEN nm[1] ELSE DefaultPetName,
        happiness |-> PET_MAX_HAPPINESS])

\* C32: a tracked summon on slot i is refused when the player already has a
\* live pet: no pet is created, the tracked store and the caches are
\* unchanged, the menu is closed.  Otherwise the pet the host creates is one of
\* the entry of slot i, carries the tracked custom name of (owner, entry) when
\* such a record exists, and has maximal happiness (the host creating none,
\* the player is told so and has no pet).  No tracked record is added or
\* removed.
C32_TrackedSummon ==
  [][\A p \in Players :
       SummonSelected(p) =>
         LET e == player[p].petMap[1][SelectedCode' - SummonBase + 1]
         IN  /\ tamed_pets' = tamed_pets
             /\ rt' = rt
             /\ ~player'[p].gossip.open
             /\ \A q \in Players \ {p} : player'[q] = player[q]
             /\ IF player[p].pet # None
                THEN /\ LastMessage = "AbandonFirst"
                     /\ ~HasEvent("Summoned")'
                     /\ player'[p] = Kept(p)
                ELSE \/ /\ Recorded("Summoned", e)
                        /\ player'[p] =
                             [Kept(p) EXCEPT !.pet = SummonedPet(e, StoredName(p, e))]
                     \/ /\ LastMessage = "SummonFailed"
                        /\ player'[p] = Kept(p)]_vars

\* C32's case: a tracked record that was renamed is summoned, and the live pet
\* carries the record's name, not the name the host gives
C32_Witness ==
  \E p \in Players :
    /\ out.p = p /\ Selected
    /\ HasEvent("Summoned")
    /\ player[p].pet # None
    /\ player[p].pet[1].name # DefaultPetName
    /\ StoredName(p, player[p].pet[1].entry) = Some(player[p].pet[1].name)
    /\ player[p].pet[1].happiness = PET_MAX_HAPPINESS
\* a tracked summon was refused for the live pet the player has
SummonRefusedForPet ==
  \E p \in Players :
    /\ out.p = p /\ Selected
    /\ IsTrackedSummon(SelectedCode)
    /\ HasEvent("AbandonFirst")
    /\ player[p].pet # None

(***************************************************************************)
(* Cache population beside a delete or a rename                            *)
(***************************************************************************)
\* no call of player p is in progress
Quiet(p) == CallsOf(p) = NoCallsOf

\* C33: no invalidation of a per-player cache is lost: whenever the calls of
\* a player have completed, under every interleaving of a cache population
\* with a delete or rename of that player, the player's tracked-list cache is
\* absent or equal to the store's records, newest first, and the player's
\* tamed-entry set is absent or equal to the entries of the store's records.
C33_NoLostInvalidation ==
  \A p \in Players :
    Quiet(p) =>
      /\ p \in DOMAIN rt.trackedPetsCache =>
           rt.trackedPetsCache[p] = Reverse(tamed_pets[p])
      /\ p \in DOMAIN rt.tamedEntriesCache =>
           rt.tamedEntriesCache[p] =
             {tamed_pets[p][i].entry : i \in 1..Len(tamed_pets[p])}

(***************************************************************************)
(* The tracked menu after a reload                                         *)
(***************************************************************************)
\* C34: a tracked-menu render always has a tracked list to render: in every
\* reachable state, reloads that switch tracking off while a tracked menu is
\* open included, the process has not dereferenced a null list pointer, and a
\* tracked-menu page that was rendered was rendered from the player's list in
\* the cache.
C34_RenderHasList ==
  /\ ~crashed
  /\ \A p \in Players, page \in 1..2 :
       TrackedMenuRendered(p, page) => p \in DOMAIN rt.trackedPetsCache

(***************************************************************************)
(* A rename pending while the record is deleted                            *)
(***************************************************************************)
\* the store holds a record of player p for entry e
Tracked(p, e) == \E i \in 1..Len(tamed_pets[p]) : tamed_pets[p][i].entry = e
\* the step is a ".petname rename" of player p that reports success for entry e
ConfirmSucceeded(p, e) ==
  /\ out'.p = p
  /\ out'.events # <<>>
  /\ out'.events[1].ev = "PetnameRename"
  /\ Recorded("Renamed", e)

\* C35: whenever a player's rename-pending flag is armed for entry e, the
\* store holds a tracked record (player, e); and every confirm that reports
\* success was given for a record the store held and leaves that record under
\* the name reported.
C35_ArmedHasRecord ==
  /\ [](\A p \in Players, e \in EntriesIn(tames) :
          AwaitingRename(p, e) => Tracked(p, e))
  /\ [][\A p \in Players, e \in EntriesIn(tames) :
          ConfirmSucceeded(p, e) => Tracked(p, e) /\ Tracked(p, e)']_vars

(***************************************************************************)
(* The records the menus lead to                                           *)
(***************************************************************************)
\* the menu player p has open is a tracked-menu page that lists entry e
ListedOn(p, e) ==
  /\ \E page \in 1..2 : TrackedMenuRendered(p, page)
  /\ \E k \in 1..Len(ListedRecords(p)) : ListedRecords(p)[k] = e

\* the last call sent player p a menu by the selection of code c
Opened(p, c) ==
  /\ out.p = p /\ Selected /\ SelectedCode = c
  /\ player[p].gossip.open
\* the player opens every menu of the NPC again and again: the main menu,
\* the tracked menu from its item of the main menu, the browse page
Seeking(p) ==
  /\ []<>(out.p = p /\ HasEvent("MainMenu") /\ player[p].gossip.open)
  /\ []<>Opened(p, TrackedPetsMenu)
  /\ []<>Opened(p, PetsStart)

\* C36: every tracked record of a player is reachable through the menu: for
\* each record of the player, the player who keeps opening the menus by the
\* codes they offer, starting at the main menu, comes to a tracked-menu page
\* that lists the record.
C36_EveryRecordReachable ==
  \A e \in {ManyRows[i].entry : i \in 1..Len(ManyRows)} :
    Seeking(1) => <>ListedOn(1, e)

\* the oldest record of a list longer than a page is on no page the menus
\* lead to, as long as the store holds every record
OldestNeverListed ==
  \A p \in Players :
    tamed_pets[p] = ManyRows => ~ListedOn(p, ManyRows[1].entry)
\* the ten newer records are listed
NewerListed ==
  \E p \in Players :
    /\ tamed_pets[p] = ManyRows
    /\ \A i \in 2..Len(ManyRows) : ListedOn(p, ManyRows[i].entry)


(***************************************************************************)
(* Browse bucket against exotic gating                                     *)
(***************************************************************************)
\* Load placed creature e in the Exotic or the RareExotic bucket
InExoticBucket(e) ==
  e \in EntriesIn(rt.exoticPets) \cup EntriesIn(rt.rareExoticPets)
\* Load placed creature e in the Normal or the Rare bucket, the two every
\* player is offered
InOfferedBucket(e) ==
  e \in EntriesIn(rt.normalPets) \cup EntriesIn(rt.rarePets)
\* the attempt was refused by one of the two exotic checks
RefusedAsExotic == LastMessage \in {"OnlyHuntersExotic", "NeedBeastMastery"}

\* C37: the bucket an entry is browsed under and the exotic gating applied
\* when it is adopted agree: an attempt by a player barred from exotic
\* creatures, who has no live pet, to adopt a loaded entry is refused by an
\* exotic check exactly if Load placed the entry in the Exotic or RareExotic
\* bucket, and never if it placed it in the Normal or Rare bucket.
C37_BucketAgreesWithGating ==
  [][\A p \in Players, e \in DOMAIN rt.allPetsByEntry :
       (Attempt(p, e) /\ ExoticBarred(p) /\ player[p].pet = None) =>
         /\ InExoticBucket(e) <=> RefusedAsExotic
         /\ InOfferedBucket(e) => ~RefusedAsExotic]_vars

\* the same agreement read off the loaded catalog: an entry is in the Exotic
\* or RareExotic bucket exactly if its rarity, the field CreatePet tests, is
\* "exotic"
BucketAgreesWithRarity ==
  \A e \in DOMAIN rt.allPetsByEntry :
    InExoticBucket(e) <=> rt.allPetsByEntry[e].rarity = "exotic"
\* a normal creature on the rare-exotic list: browsed as exotic, never gated
NormalInRareExotic ==
  \E e \in DOMAIN rt.allPetsByEntry :
    /\ e \in EntriesIn(rt.rareExoticPets)
    /\ rt.allPetsByEntry[e].rarity = "normal"


(***************************************************************************)
(* Lock discipline                                                         *)
(***************************************************************************)
\* the lock_guard thread t is at
AtGuard(t) == Head(pc.rest[t])
\* thread t can take its next step
CanStep(t) ==
  /\ pc.rest[t] # <<>>
  /\ AtLock(t) => pc.held[AtGuard(t).m] = {}

\* C38: no operation holds more than one of the three mutexes at a time and
\* none locks a mutex it already holds, so no interleaving deadlocks: a mutex
\* has at most one owner, a thread owns at most one mutex and none while it
\* is at a lock_guard constructor, and every thread that waits for a mutex
\* waits for one whose owner can take its next step.
C38_NoDeadlock ==
  /\ ~crashed
  /\ \A m \in Mutexes : Cardinality(pc.held[m]) <= 1
  /\ \A t \in Threads :
       /\ Cardinality(HeldBy(t)) <= 1
       /\ AtLock(t) => HeldBy(t) = {}
       /\ Blocked(t) => \A u \in pc.held[AtGuard(t).m] : CanStep(u)

\* C38's case: a player's thread is inside the lazy LoadSystem of
\* ShowMainMenu and owns petsMutex, the other player's thread waits for
\* petsMutex with a handler of its own, and the world thread waits for it to
\* run LoadSystem
C38_Witness ==
  \E t \in Players, u \in Players :
    /\ u # t
    /\ pc.held["petsMutex"] = {t}
    /\ Len(pc.rest[t]) = 3
    /\ pc.rest[t][1] = [op |-> "unlock", m |-> "petsMutex", line |-> 336]
    /\ pc.rest[t][2] = [op |-> "lock", m |-> "petsMutex", line |-> 565]
    /\ Blocked(u) /\ AtGuard(u).line = 1087
    /\ Blocked(World)

====
